---- MODULE Spec2Model ----
(***************************************************************************)
(* A model of the sol-parser-sdk decoders: the account decoders            *)
(* (src/src/accounts), the instruction decoders (src/src/instr) and the    *)
(* PumpSwap log decoder (src/src/logs/pump_amm.rs).                        *)
(*                                                                         *)
(* The decoders are functions of their arguments and of one clock read.    *)
(* The state is the last call made by the caller (its arguments), what it  *)
(* returned, the wall clock, and the unchecked reads the call performed.   *)
(*                                                                         *)
(* Representation of the wire values:                                      *)
(*   - a byte buffer is a sequence of 0..255, offsets are zero-based as in *)
(*     the source (byte at offset o is buf[o + 1]);                        *)
(*   - a u16 / u32 / u64 / u128 is the sequence of its 16-bit limbs, least *)
(*     significant first (1, 2, 4 and 8 limbs), so that no width is lost;  *)
(*   - a public key read from a buffer is its 32 bytes; a public key of an *)
(*     accounts list is a number, 0 being Pubkey::default().               *)
(***************************************************************************)
EXTENDS Integers, Sequences, FiniteSets, TLC

VARIABLES call, result, clock, unchecked, stamped, perf_stats,
          WARMED_UP, warmup_pc, warmed, body_runs, returned, observed

\* the state of the warmup routine: the flag, where each thread is in
\* warmup_parser, the initialization steps completed, how often the
\* initialization body was entered, the threads a call of warmup_parser has
\* returned to, and what is_warmed_up() last returned to each thread
warmup_vars == <<WARMED_UP, warmup_pc, warmed, body_runs, returned, observed>>

decoder_vars == <<call, result, clock, unchecked, stamped, perf_stats>>

vars == <<call, result, clock, unchecked, stamped, perf_stats, warmup_vars>>

-----------------------------------------------------------------------------
(* Bounds of the model *)

\* the wall clock takes the values 0..MaxClock
MaxClock == 1
\* account data buffers have 0..MaxDataLen bytes
MaxDataLen == 166
\* an instruction payload has 0..MaxBody bytes after its discriminator
MaxBody == 41
\* an instruction carries 0..MaxAccounts accounts
MaxAccounts == 22
\* record lengths tried around the lengths a log decoder checks and reads
MaxSlack == 1
\* up to MaxCut trailing bytes are removed from a log record, one by one
MaxCut == 2
\* PARSE_COUNT takes the values 0..MaxParseCount
MaxParseCount == 1
\* the threads 1..MaxThreads call warmup_parser and is_warmed_up
MaxThreads == 3
\* the fast filter is handed records of 0..MaxFastLen bytes, and whole ones
MaxFastLen == 13
\* the byte readers are handed buffers of 0..MaxReadLen bytes
MaxReadLen == 33

-----------------------------------------------------------------------------
(* Option<T> *)

None == [some |-> FALSE]
Some(v) == [some |-> TRUE, v |-> v]

\* Option<DexEvent>::None
NoEvent == [type |-> "None"]

\* Pubkey::default()
ZeroKey == 0

-----------------------------------------------------------------------------
(* Byte buffers *)

\* data[off .. off + w]
Slice(data, off, w) == [i \in 1..w |-> data[off + i]]

\* uN::from_le_bytes: the 16-bit limbs of an even number of bytes
from_le_bytes(bytes) ==
    [k \in 1..(Len(bytes) \div 2) |-> bytes[2 * k - 1] + 256 * bytes[2 * k]]

\* n.to_le_bytes() on w bytes, for the values the caller encodes
RECURSIVE to_le_bytes(_, _)
to_le_bytes(n, w) ==
    IF w = 0 THEN <<>> ELSE <<n % 256>> \o to_le_bytes(n \div 256, w - 1)

\* the limbs of the u64 whose value is n
U64(n) == from_le_bytes(to_le_bytes(n, 8))
U128(n) == from_le_bytes(to_le_bytes(n, 16))

\* `x as u128` for a u64 x
widen_u128(x) == x \o <<0, 0, 0, 0>>

\* a buffer of n bytes whose byte at offset o is (seed + 3 * o) % 256
Ramp(seed, n) == [i \in 1..n |-> (seed + 3 * (i - 1)) % 256]

\* buf with the bytes at off.. replaced by bytes (as far as buf reaches)
Overlay(buf, off, bytes) ==
    [i \in 1..Len(buf) |->
        IF i > off /\ i <= off + Len(bytes) THEN bytes[i - off] ELSE buf[i]]

-----------------------------------------------------------------------------
(* Account decoders: src/src/accounts *)

PUMPSWAP_PROGRAM_ID == "pAMMBay6oceH9fJKBRHGP5D4bD4sWpmSwMn52FMfXEA"
SPL_TOKEN_PROGRAM_ID == "TokenkegQfeZyiNwAJbNbGKPFXCWuBvf9Ss623VQ5DA"
SPL_TOKEN_2022_PROGRAM_ID == "TokenzQdBNbLqP5VEhdkAS6EPFLC1PHnBqCXEpPxuEb"
SYSTEM_PROGRAM_ID == "11111111111111111111111111111111"

\* the nonce account magic: Versions::Current (u32 1), State::Initialized (u32 1)
NONCE_DISCRIMINATOR == <<1, 0, 0, 0, 1, 0, 0, 0>>

\* accounts/pumpswap.rs is not part of the sources at hand: the two 8-byte
\* account discriminators it detects by
GLOBAL_CONFIG_DISCRIMINATOR == <<149, 8, 156, 202, 160, 252, 176, 217>>
POOL_DISCRIMINATOR == <<241, 154, 109, 4, 17, 177, 109, 188>>

MINT_SIZE == 82
SUPPLY_OFFSET == 36
DECIMALS_OFFSET == 44
AMOUNT_OFFSET == 64
\* parse_token_account tries the mint decoder for data.len() <= 100
MINT_MAX_LEN == 100
\* bincode size of nonce Versions(State::Initialized(Data)): 4 + 4 + 32 + 32 + 8
NONCE_STATE_SIZE == 80

has_discriminator(data, discriminator) ==
    IF Len(data) < Len(discriminator)
    THEN FALSE
    ELSE Slice(data, 0, Len(discriminator)) = discriminator

is_nonce_account(data) ==
    Len(data) >= 8 /\ Slice(data, 0, 8) = NONCE_DISCRIMINATOR

is_token_program_account(owner) ==
    owner = SPL_TOKEN_PROGRAM_ID \/ owner = SPL_TOKEN_2022_PROGRAM_ID

\* solana_account_decoder::parse_nonce::parse_nonce: bincode-decodes
\* Versions { Legacy | Current }(State { Uninitialized | Initialized(Data) }),
\* Data being authority (32 bytes), durable nonce (32 bytes) and the fee
\* calculator (u64).  An Uninitialized state never yields an event, whether
\* the decoder reports it as a state or as an error.
parse_nonce(data) ==
    IF Len(data) < 8 THEN [kind |-> "Err"]
    ELSE LET version == from_le_bytes(Slice(data, 0, 4))
             state == from_le_bytes(Slice(data, 4, 4))
         IN  IF version \notin {<<0, 0>>, <<1, 0>>} THEN [kind |-> "Err"]
             ELSE IF state = <<0, 0>> THEN [kind |-> "Uninitialized"]
             ELSE IF state = <<1, 0>> /\ Len(data) >= NONCE_STATE_SIZE
                  THEN [kind |-> "Initialized",
                        authority |-> [base58 |-> Slice(data, 8, 32)],
                        blockhash |-> [base58 |-> Slice(data, 40, 32)]]
                  ELSE [kind |-> "Err"]

\* parse_nonce_account emitting for every state the decoder reports, an
\* Uninitialized state with an empty blockhash and authority
parse_nonce_account_any_state(account, metadata) ==
    LET info == parse_nonce(account.data)
    IN  IF info.kind \in {"Initialized", "Uninitialized"}
        THEN [type |-> "NonceAccount",
              metadata |-> metadata,
              pubkey |-> account.pubkey,
              executable |-> account.executable,
              lamports |-> account.lamports,
              owner |-> account.owner,
              rent_epoch |-> account.rent_epoch,
              nonce |-> IF info.kind = "Initialized" THEN info.blockhash
                        ELSE [base58 |-> <<>>],
              authority |-> IF info.kind = "Initialized" THEN info.authority
                            ELSE [base58 |-> <<>>]]
        ELSE NoEvent

parse_nonce_account(account, metadata) ==
    LET info == parse_nonce(account.data)
    IN  IF info.kind = "Initialized"
        THEN [type |-> "NonceAccount",
              metadata |-> metadata,
              pubkey |-> account.pubkey,
              executable |-> account.executable,
              lamports |-> account.lamports,
              owner |-> account.owner,
              rent_epoch |-> account.rent_epoch,
              nonce |-> info.blockhash,
              authority |-> info.authority]
        ELSE NoEvent

parse_mint_fast(account, metadata) ==
    IF Len(account.data) < MINT_SIZE THEN NoEvent
    ELSE [type |-> "TokenInfo",
          metadata |-> metadata,
          pubkey |-> account.pubkey,
          executable |-> account.executable,
          lamports |-> account.lamports,
          owner |-> account.owner,
          rent_epoch |-> account.rent_epoch,
          supply |-> from_le_bytes(Slice(account.data, SUPPLY_OFFSET, 8)),
          decimals |-> account.data[DECIMALS_OFFSET + 1]]

\* parse_token_fast reading the amount where the beneficial owner lies
parse_token_fast_owner_offset(account, metadata) ==
    IF Len(account.data) < AMOUNT_OFFSET + 8 THEN NoEvent
    ELSE [type |-> "TokenAccount",
          metadata |-> metadata,
          pubkey |-> account.pubkey,
          executable |-> account.executable,
          lamports |-> account.lamports,
          owner |-> account.owner,
          rent_epoch |-> account.rent_epoch,
          amount |-> Some(from_le_bytes(Slice(account.data, 32, 8))),
          token_owner |-> account.owner]

parse_token_fast(account, metadata) ==
    IF Len(account.data) < AMOUNT_OFFSET + 8 THEN NoEvent
    ELSE [type |-> "TokenAccount",
          metadata |-> metadata,
          pubkey |-> account.pubkey,
          executable |-> account.executable,
          lamports |-> account.lamports,
          owner |-> account.owner,
          rent_epoch |-> account.rent_epoch,
          amount |-> Some(from_le_bytes(Slice(account.data, AMOUNT_OFFSET, 8))),
          token_owner |-> account.owner]

\* parse_token_account choosing one decoder by the length, without handing
\* the data the mint decoder rejects to the token-account decoder
parse_token_account_by_length(account, metadata) ==
    IF Len(account.data) <= MINT_MAX_LEN
    THEN parse_mint_fast(account, metadata)
    ELSE parse_token_fast(account, metadata)

\* parse_token_account with the length test written `<` instead of `<=`
parse_token_account_strict(account, metadata) ==
    LET mint == IF Len(account.data) < MINT_MAX_LEN
                THEN parse_mint_fast(account, metadata)
                ELSE NoEvent
    IN  IF mint # NoEvent THEN mint ELSE parse_token_fast(account, metadata)

parse_token_account(account, metadata) ==
    LET mint == IF Len(account.data) <= MINT_MAX_LEN
                THEN parse_mint_fast(account, metadata)
                ELSE NoEvent
    IN  IF mint # NoEvent THEN mint ELSE parse_token_fast(account, metadata)

\* accounts/pumpswap.rs (not at hand): detection by the 8-byte prefix
pumpswap_is_global_config_account(data) ==
    has_discriminator(data, GLOBAL_CONFIG_DISCRIMINATOR)

pumpswap_is_pool_account(data) ==
    has_discriminator(data, POOL_DISCRIMINATOR)

\* accounts/pumpswap.rs (not at hand): the decoders of the full layouts.  Whether
\* a buffer holds the whole layout is decided by code that is not at hand:
\* layout_ok is that decision.
pumpswap_parse_global_config(account, metadata, layout_ok) ==
    IF layout_ok
    THEN [type |-> "PumpSwapGlobalConfigAccount",
          metadata |-> metadata,
          pubkey |-> account.pubkey]
    ELSE NoEvent

pumpswap_parse_pool(account, metadata, layout_ok) ==
    IF layout_ok
    THEN [type |-> "PumpSwapPoolAccount",
          metadata |-> metadata,
          pubkey |-> account.pubkey]
    ELSE NoEvent

parse_pumpswap_account(account, metadata, layout_ok) ==
    IF pumpswap_is_global_config_account(account.data)
    THEN pumpswap_parse_global_config(account, metadata, layout_ok)
    ELSE IF pumpswap_is_pool_account(account.data)
    THEN pumpswap_parse_pool(account, metadata, layout_ok)
    ELSE NoEvent

\* parse_account_unified letting a PumpSwap-owned account that matches no
\* PumpSwap discriminator fall through to the nonce and token decoders
parse_account_unified_fallthrough(account, metadata, event_type_filter, layout_ok) ==
    IF Len(account.data) = 0 THEN NoEvent
    ELSE IF /\ account.owner = PUMPSWAP_PROGRAM_ID
            /\ \/ pumpswap_is_global_config_account(account.data)
               \/ pumpswap_is_pool_account(account.data)
    THEN parse_pumpswap_account(account, metadata, layout_ok)
    ELSE IF is_nonce_account(account.data)
    THEN parse_nonce_account(account, metadata)
    ELSE parse_token_account(account, metadata)

\* parse_account_unified dropping the events the filter does not name
parse_account_unified_filtered(account, metadata, event_type_filter, layout_ok) ==
    LET event == IF Len(account.data) = 0 THEN NoEvent
                 ELSE IF account.owner = PUMPSWAP_PROGRAM_ID
                 THEN parse_pumpswap_account(account, metadata, layout_ok)
                 ELSE IF is_nonce_account(account.data)
                 THEN parse_nonce_account(account, metadata)
                 ELSE parse_token_account(account, metadata)
    IN  IF event_type_filter.some /\ event.type # event_type_filter.v
        THEN NoEvent
        ELSE event

parse_account_unified(account, metadata, event_type_filter, layout_ok) ==
    IF Len(account.data) = 0 THEN NoEvent
    ELSE IF account.owner = PUMPSWAP_PROGRAM_ID
    THEN parse_pumpswap_account(account, metadata, layout_ok)
    ELSE IF is_nonce_account(account.data)
    THEN parse_nonce_account(account, metadata)
    ELSE parse_token_account(account, metadata)

-----------------------------------------------------------------------------
(* Instruction decoders, shared helpers: src/src/instr/utils.rs *)

\* the context of an instruction fact: signature, slot, tx_index and
\* block_time_us (an Option<i64>) travel together through every decoder
Ctx(signature, slot, tx_index, block_time_us) ==
    [signature |-> signature, slot |-> slot, tx_index |-> tx_index,
     block_time_us |-> block_time_us]

unwrap_or(opt, default) == IF opt.some THEN opt.v ELSE default

\* Option<Pubkey>::unwrap_or_default
unwrap_or_default(opt) == unwrap_or(opt, ZeroKey)

\* create_metadata_simple leaving tx_index at its default
create_metadata_simple_no_index(ctx, program_id) ==
    [signature |-> ctx.signature,
     slot |-> ctx.slot,
     tx_index |-> 0,
     block_time_us |-> unwrap_or(ctx.block_time_us, 0),
     grpc_recv_us |-> clock]

\* the clock read is clock_gettime(CLOCK_REALTIME_COARSE / CLOCK_REALTIME)
create_metadata_simple(ctx, program_id) ==
    [signature |-> ctx.signature,
     slot |-> ctx.slot,
     tx_index |-> ctx.tx_index,
     block_time_us |-> unwrap_or(ctx.block_time_us, 0),
     grpc_recv_us |-> clock]

read_u64_le(data, offset) ==
    IF offset + 8 <= Len(data)
    THEN Some(from_le_bytes(Slice(data, offset, 8)))
    ELSE None

read_u32_le(data, offset) ==
    IF offset + 4 <= Len(data)
    THEN Some(from_le_bytes(Slice(data, offset, 4)))
    ELSE None

\* a u16 is one limb: its value
read_u16_le(data, offset) ==
    IF offset + 2 <= Len(data)
    THEN Some(from_le_bytes(Slice(data, offset, 2))[1])
    ELSE None

read_u8(data, offset) ==
    IF offset < Len(data) THEN Some(data[offset + 1]) ELSE None

read_u128_le(data, offset) ==
    IF offset + 16 <= Len(data)
    THEN Some(from_le_bytes(Slice(data, offset, 16)))
    ELSE None

read_bool(data, offset) ==
    IF offset < Len(data) THEN Some(data[offset + 1] # 0) ELSE None

get_account(accounts, index) ==
    IF index < Len(accounts) THEN Some(accounts[index + 1]) ELSE None

\* `x as i32` for a u32 x
as_i32(x) ==
    IF x[2] >= 32768 THEN (x[2] - 65536) * 65536 + x[1] ELSE x[2] * 65536 + x[1]

\* every one of the Options holds a value: the `?` of each was passed
AllSome(opts) == \A i \in 1..Len(opts) : opts[i].some

-----------------------------------------------------------------------------
(* Raydium AMM V4 instruction decoder: src/src/instr/raydium_amm.rs *)

raydium_amm_parse_swap_base_in_instruction(data, accounts, ctx) ==
    LET amount_in == read_u64_le(data, 0)
        minimum_amount_out == read_u64_le(data, 8)
        amm == get_account(accounts, 1)
    IN  IF ~AllSome(<<amount_in, minimum_amount_out, amm>>) THEN NoEvent
        ELSE [type |-> "RaydiumAmmV4Swap",
              metadata |-> create_metadata_simple(ctx, amm.v),
              amount_in |-> amount_in.v,
              minimum_amount_out |-> minimum_amount_out.v,
              max_amount_in |-> U64(0),
              amount_out |-> U64(0),
              token_program |-> unwrap_or_default(get_account(accounts, 0)),
              amm |-> amm.v,
              amm_authority |-> unwrap_or_default(get_account(accounts, 2)),
              amm_open_orders |-> unwrap_or_default(get_account(accounts, 3)),
              amm_target_orders |-> get_account(accounts, 4),
              pool_coin_token_account |-> unwrap_or_default(get_account(accounts, 5)),
              pool_pc_token_account |-> unwrap_or_default(get_account(accounts, 6)),
              serum_program |-> unwrap_or_default(get_account(accounts, 7)),
              serum_market |-> unwrap_or_default(get_account(accounts, 8)),
              serum_bids |-> unwrap_or_default(get_account(accounts, 9)),
              serum_asks |-> unwrap_or_default(get_account(accounts, 10)),
              serum_event_queue |-> unwrap_or_default(get_account(accounts, 11)),
              serum_coin_vault_account |-> unwrap_or_default(get_account(accounts, 12)),
              serum_pc_vault_account |-> unwrap_or_default(get_account(accounts, 13)),
              serum_vault_signer |-> unwrap_or_default(get_account(accounts, 14)),
              user_source_token_account |-> unwrap_or_default(get_account(accounts, 15)),
              user_destination_token_account |-> unwrap_or_default(get_account(accounts, 16)),
              user_source_owner |-> unwrap_or_default(get_account(accounts, 17))]

raydium_amm_parse_swap_base_out_instruction(data, accounts, ctx) ==
    LET max_amount_in == read_u64_le(data, 0)
        amount_out == read_u64_le(data, 8)
        amm == get_account(accounts, 1)
    IN  IF ~AllSome(<<max_amount_in, amount_out, amm>>) THEN NoEvent
        ELSE [type |-> "RaydiumAmmV4Swap",
              metadata |-> create_metadata_simple(ctx, amm.v),
              amount_in |-> U64(0),
              minimum_amount_out |-> U64(0),
              max_amount_in |-> max_amount_in.v,
              amount_out |-> amount_out.v,
              token_program |-> unwrap_or_default(get_account(accounts, 0)),
              amm |-> amm.v,
              amm_authority |-> unwrap_or_default(get_account(accounts, 2)),
              amm_open_orders |-> unwrap_or_default(get_account(accounts, 3)),
              amm_target_orders |-> get_account(accounts, 4),
              pool_coin_token_account |-> unwrap_or_default(get_account(accounts, 5)),
              pool_pc_token_account |-> unwrap_or_default(get_account(accounts, 6)),
              serum_program |-> unwrap_or_default(get_account(accounts, 7)),
              serum_market |-> unwrap_or_default(get_account(accounts, 8)),
              serum_bids |-> unwrap_or_default(get_account(accounts, 9)),
              serum_asks |-> unwrap_or_default(get_account(accounts, 10)),
              serum_event_queue |-> unwrap_or_default(get_account(accounts, 11)),
              serum_coin_vault_account |-> unwrap_or_default(get_account(accounts, 12)),
              serum_pc_vault_account |-> unwrap_or_default(get_account(accounts, 13)),
              serum_vault_signer |-> unwrap_or_default(get_account(accounts, 14)),
              user_source_token_account |-> unwrap_or_default(get_account(accounts, 15)),
              user_destination_token_account |-> unwrap_or_default(get_account(accounts, 16)),
              user_source_owner |-> unwrap_or_default(get_account(accounts, 17))]

raydium_amm_parse_deposit_instruction(data, accounts, ctx) ==
    LET max_coin_amount == read_u64_le(data, 0)
        max_pc_amount == read_u64_le(data, 8)
        base_side == read_u64_le(data, 16)
        amm == get_account(accounts, 1)
    IN  IF ~AllSome(<<max_coin_amount, max_pc_amount, base_side, amm>>) THEN NoEvent
        ELSE [type |-> "RaydiumAmmV4Deposit",
              metadata |-> create_metadata_simple(ctx, amm.v),
              max_coin_amount |-> max_coin_amount.v,
              max_pc_amount |-> max_pc_amount.v,
              base_side |-> base_side.v,
              token_program |-> unwrap_or_default(get_account(accounts, 0)),
              amm |-> amm.v,
              amm_authority |-> unwrap_or_default(get_account(accounts, 2)),
              amm_open_orders |-> unwrap_or_default(get_account(accounts, 3)),
              amm_target_orders |-> unwrap_or_default(get_account(accounts, 4)),
              lp_mint_address |-> unwrap_or_default(get_account(accounts, 5)),
              pool_coin_token_account |-> unwrap_or_default(get_account(accounts, 6)),
              pool_pc_token_account |-> unwrap_or_default(get_account(accounts, 7)),
              serum_market |-> unwrap_or_default(get_account(accounts, 8)),
              user_coin_token_account |-> unwrap_or_default(get_account(accounts, 9)),
              user_pc_token_account |-> unwrap_or_default(get_account(accounts, 10)),
              user_lp_token_account |-> unwrap_or_default(get_account(accounts, 11)),
              user_owner |-> unwrap_or_default(get_account(accounts, 12)),
              serum_event_queue |-> unwrap_or_default(get_account(accounts, 13))]

raydium_amm_parse_withdraw_instruction(data, accounts, ctx) ==
    LET amount == read_u64_le(data, 0)
        amm == get_account(accounts, 1)
    IN  IF ~AllSome(<<amount, amm>>) THEN NoEvent
        ELSE [type |-> "RaydiumAmmV4Withdraw",
              metadata |-> create_metadata_simple(ctx, amm.v),
              amount |-> amount.v,
              token_program |-> unwrap_or_default(get_account(accounts, 0)),
              amm |-> amm.v,
              amm_authority |-> unwrap_or_default(get_account(accounts, 2)),
              amm_open_orders |-> unwrap_or_default(get_account(accounts, 3)),
              amm_target_orders |-> unwrap_or_default(get_account(accounts, 4)),
              lp_mint_address |-> unwrap_or_default(get_account(accounts, 5)),
              pool_coin_token_account |-> unwrap_or_default(get_account(accounts, 6)),
              pool_pc_token_account |-> unwrap_or_default(get_account(accounts, 7)),
              pool_withdraw_queue |-> unwrap_or_default(get_account(accounts, 8)),
              pool_temp_lp_token_account |-> unwrap_or_default(get_account(accounts, 9)),
              serum_program |-> unwrap_or_default(get_account(accounts, 10)),
              serum_market |-> unwrap_or_default(get_account(accounts, 11)),
              serum_coin_vault_account |-> unwrap_or_default(get_account(accounts, 12)),
              serum_pc_vault_account |-> unwrap_or_default(get_account(accounts, 13)),
              serum_vault_signer |-> unwrap_or_default(get_account(accounts, 14)),
              user_lp_token_account |-> unwrap_or_default(get_account(accounts, 15)),
              user_coin_token_account |-> unwrap_or_default(get_account(accounts, 16)),
              user_pc_token_account |-> unwrap_or_default(get_account(accounts, 17)),
              user_owner |-> unwrap_or_default(get_account(accounts, 18)),
              serum_event_queue |-> unwrap_or_default(get_account(accounts, 19)),
              serum_bids |-> unwrap_or_default(get_account(accounts, 20)),
              serum_asks |-> unwrap_or_default(get_account(accounts, 21))]

raydium_amm_parse_initialize2_instruction(data, accounts, ctx) ==
    LET nonce == read_u8(data, 0)
        open_time == read_u64_le(data, 1)
        init_pc_amount == read_u64_le(data, 9)
        init_coin_amount == read_u64_le(data, 17)
        amm == get_account(accounts, 4)
    IN  IF ~AllSome(<<nonce, open_time, init_pc_amount, init_coin_amount, amm>>) THEN NoEvent
        ELSE [type |-> "RaydiumAmmV4Initialize2",
              metadata |-> create_metadata_simple(ctx, amm.v),
              nonce |-> nonce.v,
              open_time |-> open_time.v,
              init_pc_amount |-> init_pc_amount.v,
              init_coin_amount |-> init_coin_amount.v,
              token_program |-> unwrap_or_default(get_account(accounts, 0)),
              spl_associated_token_account |-> unwrap_or_default(get_account(accounts, 1)),
              system_program |-> unwrap_or_default(get_account(accounts, 2)),
              rent |-> unwrap_or_default(get_account(accounts, 3)),
              amm |-> amm.v,
              amm_authority |-> unwrap_or_default(get_account(accounts, 5)),
              amm_open_orders |-> unwrap_or_default(get_account(accounts, 6)),
              lp_mint |-> unwrap_or_default(get_account(accounts, 7)),
              coin_mint |-> unwrap_or_default(get_account(accounts, 8)),
              pc_mint |-> unwrap_or_default(get_account(accounts, 9)),
              pool_coin_token_account |-> unwrap_or_default(get_account(accounts, 10)),
              pool_pc_token_account |-> unwrap_or_default(get_account(accounts, 11)),
              pool_withdraw_queue |-> unwrap_or_default(get_account(accounts, 12)),
              amm_target_orders |-> unwrap_or_default(get_account(accounts, 13)),
              pool_temp_lp |-> unwrap_or_default(get_account(accounts, 14)),
              serum_program |-> unwrap_or_default(get_account(accounts, 15)),
              serum_market |-> unwrap_or_default(get_account(accounts, 16)),
              user_wallet |-> unwrap_or_default(get_account(accounts, 17)),
              user_token_coin |-> unwrap_or_default(get_account(accounts, 18)),
              user_token_pc |-> unwrap_or_default(get_account(accounts, 19)),
              user_lp_token_account |-> unwrap_or_default(get_account(accounts, 20))]

raydium_amm_parse_withdraw_pnl_instruction(data, accounts, ctx) ==
    LET amm == get_account(accounts, 1)
    IN  IF ~AllSome(<<amm>>) THEN NoEvent
        ELSE [type |-> "RaydiumAmmV4WithdrawPnl",
              metadata |-> create_metadata_simple(ctx, amm.v),
              token_program |-> unwrap_or_default(get_account(accounts, 0)),
              amm |-> amm.v,
              amm_config |-> unwrap_or_default(get_account(accounts, 2)),
              amm_authority |-> unwrap_or_default(get_account(accounts, 3)),
              amm_open_orders |-> unwrap_or_default(get_account(accounts, 4)),
              pool_coin_token_account |-> unwrap_or_default(get_account(accounts, 5)),
              pool_pc_token_account |-> unwrap_or_default(get_account(accounts, 6)),
              coin_pnl_token_account |-> unwrap_or_default(get_account(accounts, 7)),
              pc_pnl_token_account |-> unwrap_or_default(get_account(accounts, 8)),
              pnl_owner |-> unwrap_or_default(get_account(accounts, 9)),
              amm_target_orders |-> unwrap_or_default(get_account(accounts, 10)),
              serum_program |-> unwrap_or_default(get_account(accounts, 11)),
              serum_market |-> unwrap_or_default(get_account(accounts, 12)),
              serum_event_queue |-> unwrap_or_default(get_account(accounts, 13)),
              serum_coin_vault_account |-> unwrap_or_default(get_account(accounts, 14)),
              serum_pc_vault_account |-> unwrap_or_default(get_account(accounts, 15)),
              serum_vault_signer |-> unwrap_or_default(get_account(accounts, 16))]

\* RaydiumAmmV4Instruction::from_u8
\* from_u8 taking every unlisted byte for SwapBaseIn
raydium_amm_from_u8_or_swap(value) ==
    CASE value = 1 -> Some("Initialize2")
      [] value = 3 -> Some("Deposit")
      [] value = 4 -> Some("Withdraw")
      [] value = 7 -> Some("WithdrawPnl")
      [] value = 11 -> Some("SwapBaseOut")
      [] OTHER -> Some("SwapBaseIn")

raydium_amm_from_u8(value) ==
    CASE value = 1 -> Some("Initialize2")
      [] value = 3 -> Some("Deposit")
      [] value = 4 -> Some("Withdraw")
      [] value = 7 -> Some("WithdrawPnl")
      [] value = 9 -> Some("SwapBaseIn")
      [] value = 11 -> Some("SwapBaseOut")
      [] OTHER -> None

\* parse_instruction with the two swap arms exchanged
raydium_amm_parse_instruction_swapped(instruction_data, accounts, ctx) ==
    IF Len(instruction_data) = 0 THEN NoEvent
    ELSE LET instruction_type == raydium_amm_from_u8(instruction_data[1])
             data == Tail(instruction_data)
         IN  IF ~instruction_type.some THEN NoEvent
             ELSE CASE instruction_type.v = "SwapBaseIn" ->
                         raydium_amm_parse_swap_base_out_instruction(data, accounts, ctx)
                    [] instruction_type.v = "SwapBaseOut" ->
                         raydium_amm_parse_swap_base_in_instruction(data, accounts, ctx)
                    [] instruction_type.v = "Deposit" ->
                         raydium_amm_parse_deposit_instruction(data, accounts, ctx)
                    [] instruction_type.v = "Withdraw" ->
                         raydium_amm_parse_withdraw_instruction(data, accounts, ctx)
                    [] instruction_type.v = "Initialize2" ->
                         raydium_amm_parse_initialize2_instruction(data, accounts, ctx)
                    [] instruction_type.v = "WithdrawPnl" ->
                         raydium_amm_parse_withdraw_pnl_instruction(data, accounts, ctx)

raydium_amm_parse_instruction(instruction_data, accounts, ctx) ==
    IF Len(instruction_data) = 0 THEN NoEvent
    ELSE LET instruction_type == raydium_amm_from_u8(instruction_data[1])
             data == Tail(instruction_data)
         IN  IF ~instruction_type.some THEN NoEvent
             ELSE CASE instruction_type.v = "SwapBaseIn" ->
                         raydium_amm_parse_swap_base_in_instruction(data, accounts, ctx)
                    [] instruction_type.v = "SwapBaseOut" ->
                         raydium_amm_parse_swap_base_out_instruction(data, accounts, ctx)
                    [] instruction_type.v = "Deposit" ->
                         raydium_amm_parse_deposit_instruction(data, accounts, ctx)
                    [] instruction_type.v = "Withdraw" ->
                         raydium_amm_parse_withdraw_instruction(data, accounts, ctx)
                    [] instruction_type.v = "Initialize2" ->
                         raydium_amm_parse_initialize2_instruction(data, accounts, ctx)
                    [] instruction_type.v = "WithdrawPnl" ->
                         raydium_amm_parse_withdraw_pnl_instruction(data, accounts, ctx)

-----------------------------------------------------------------------------
(* Raydium CLMM instruction decoder: src/src/instr/raydium_clmm.rs *)

RAYDIUM_CLMM_SWAP == <<248, 198, 158, 145, 225, 117, 135, 200>>
RAYDIUM_CLMM_INCREASE_LIQUIDITY == <<133, 29, 89, 223, 69, 238, 176, 10>>
RAYDIUM_CLMM_DECREASE_LIQUIDITY == <<160, 38, 208, 111, 104, 91, 44, 1>>
RAYDIUM_CLMM_CREATE_POOL == <<233, 146, 209, 142, 207, 104, 64, 188>>
RAYDIUM_CLMM_OPEN_POSITION == <<135, 128, 47, 77, 15, 152, 240, 49>>
RAYDIUM_CLMM_CLOSE_POSITION == <<123, 134, 81, 0, 49, 68, 98, 98>>

raydium_clmm_parse_swap_instruction(data, accounts, ctx) ==
    LET amount == read_u64_le(data, 0)
        other_amount_threshold == read_u64_le(data, 8)
        sqrt_price_limit_x64 == read_u64_le(data, 16)
        is_base_input == read_u8(data, 24)
        pool == get_account(accounts, 0)
    IN  IF ~AllSome(<<amount, other_amount_threshold, sqrt_price_limit_x64,
                      is_base_input, pool>>)
        THEN NoEvent
        ELSE [type |-> "RaydiumClmmSwap",
              metadata |-> create_metadata_simple(ctx, pool.v),
              pool_state |-> pool.v,
              sender |-> unwrap_or_default(get_account(accounts, 1)),
              token_account_0 |-> ZeroKey,
              token_account_1 |-> ZeroKey,
              amount_0 |-> U64(0),
              transfer_fee_0 |-> U64(0),
              amount_1 |-> U64(0),
              transfer_fee_1 |-> U64(0),
              zero_for_one |-> (is_base_input.v = 1),
              sqrt_price_x64 |-> widen_u128(sqrt_price_limit_x64.v),
              liquidity |-> U128(0),
              tick |-> 0]

raydium_clmm_parse_increase_liquidity_instruction(data, accounts, ctx) ==
    LET liquidity == read_u64_le(data, 0)
        amount_0_max == read_u64_le(data, 8)
        amount_1_max == read_u64_le(data, 16)
        pool == get_account(accounts, 0)
    IN  IF ~AllSome(<<liquidity, amount_0_max, amount_1_max, pool>>) THEN NoEvent
        ELSE [type |-> "RaydiumClmmIncreaseLiquidity",
              metadata |-> create_metadata_simple(ctx, pool.v),
              pool |-> pool.v,
              user |-> unwrap_or_default(get_account(accounts, 2)),
              liquidity |-> widen_u128(liquidity.v),
              amount0_max |-> amount_0_max.v,
              amount1_max |-> amount_1_max.v]

raydium_clmm_parse_decrease_liquidity_instruction(data, accounts, ctx) ==
    LET liquidity == read_u64_le(data, 0)
        amount_0_min == read_u64_le(data, 8)
        amount_1_min == read_u64_le(data, 16)
        pool == get_account(accounts, 0)
    IN  IF ~AllSome(<<liquidity, amount_0_min, amount_1_min, pool>>) THEN NoEvent
        ELSE [type |-> "RaydiumClmmDecreaseLiquidity",
              metadata |-> create_metadata_simple(ctx, pool.v),
              pool |-> pool.v,
              user |-> unwrap_or_default(get_account(accounts, 1)),
              liquidity |-> widen_u128(liquidity.v),
              amount0_min |-> amount_0_min.v,
              amount1_min |-> amount_1_min.v]

raydium_clmm_parse_create_pool_instruction(data, accounts, ctx) ==
    LET sqrt_price_x64 == read_u64_le(data, 0)
        open_time == read_u64_le(data, 8)
        pool == get_account(accounts, 0)
    IN  IF ~AllSome(<<sqrt_price_x64, open_time, pool>>) THEN NoEvent
        ELSE [type |-> "RaydiumClmmCreatePool",
              metadata |-> create_metadata_simple(ctx, pool.v),
              pool |-> pool.v,
              creator |-> unwrap_or_default(get_account(accounts, 1)),
              sqrt_price_x64 |-> widen_u128(sqrt_price_x64.v),
              open_time |-> open_time.v]

raydium_clmm_parse_open_position_instruction(data, accounts, ctx) ==
    LET tick_lower_index == read_u32_le(data, 0)
        tick_upper_index == read_u32_le(data, 4)
        tick_array_lower_start_index == read_u32_le(data, 8)
        tick_array_upper_start_index == read_u32_le(data, 12)
        liquidity == read_u64_le(data, 16)
        amount_0_max == read_u64_le(data, 24)
        amount_1_max == read_u64_le(data, 32)
        pool == get_account(accounts, 0)
    IN  IF ~AllSome(<<tick_lower_index, tick_upper_index,
                      tick_array_lower_start_index, tick_array_upper_start_index,
                      liquidity, amount_0_max, amount_1_max, pool>>)
        THEN NoEvent
        ELSE [type |-> "RaydiumClmmOpenPosition",
              metadata |-> create_metadata_simple(ctx, pool.v),
              pool |-> pool.v,
              user |-> unwrap_or_default(get_account(accounts, 1)),
              position_nft_mint |-> unwrap_or_default(get_account(accounts, 2)),
              tick_lower_index |-> as_i32(tick_lower_index.v),
              tick_upper_index |-> as_i32(tick_upper_index.v),
              liquidity |-> widen_u128(liquidity.v)]

raydium_clmm_parse_close_position_instruction(data, accounts, ctx) ==
    LET pool == get_account(accounts, 0)
    IN  IF ~pool.some THEN NoEvent
        ELSE [type |-> "RaydiumClmmClosePosition",
              metadata |-> create_metadata_simple(ctx, pool.v),
              pool |-> pool.v,
              user |-> unwrap_or_default(get_account(accounts, 1)),
              position_nft_mint |-> unwrap_or_default(get_account(accounts, 2))]

raydium_clmm_parse_instruction(instruction_data, accounts, ctx) ==
    IF Len(instruction_data) < 8 THEN NoEvent
    ELSE LET discriminator == Slice(instruction_data, 0, 8)
             data == SubSeq(instruction_data, 9, Len(instruction_data))
         IN  CASE discriminator = RAYDIUM_CLMM_SWAP ->
                    raydium_clmm_parse_swap_instruction(data, accounts, ctx)
               [] discriminator = RAYDIUM_CLMM_INCREASE_LIQUIDITY ->
                    raydium_clmm_parse_increase_liquidity_instruction(data, accounts, ctx)
               [] discriminator = RAYDIUM_CLMM_DECREASE_LIQUIDITY ->
                    raydium_clmm_parse_decrease_liquidity_instruction(data, accounts, ctx)
               [] discriminator = RAYDIUM_CLMM_CREATE_POOL ->
                    raydium_clmm_parse_create_pool_instruction(data, accounts, ctx)
               [] discriminator = RAYDIUM_CLMM_OPEN_POSITION ->
                    raydium_clmm_parse_open_position_instruction(data, accounts, ctx)
               [] discriminator = RAYDIUM_CLMM_CLOSE_POSITION ->
                    raydium_clmm_parse_close_position_instruction(data, accounts, ctx)
               [] OTHER -> NoEvent

-----------------------------------------------------------------------------
(* Orca Whirlpool instruction decoder: src/src/instr/orca_whirlpool.rs *)

\* OrcaWhirlpoolInstruction::from_discriminator
orca_whirlpool_from_discriminator(discriminator) ==
    CASE discriminator = <<208, 127, 21, 1, 194, 190, 196, 70>> -> Some("InitializeConfig")
      [] discriminator = <<17, 43, 80, 74, 168, 202, 6, 113>> -> Some("InitializePool")
      [] discriminator = <<214, 27, 15, 109, 164, 252, 221, 253>> -> Some("InitializeTickArray")
      [] discriminator = <<183, 74, 156, 160, 112, 2, 42, 30>> -> Some("InitializeFeeTier")
      [] discriminator = <<95, 135, 192, 196, 242, 129, 230, 68>> -> Some("InitializeReward")
      [] discriminator = <<13, 197, 86, 168, 109, 176, 27, 244>> -> Some("SetRewardEmissions")
      [] discriminator = <<87, 190, 72, 189, 204, 203, 226, 66>> -> Some("OpenPosition")
      [] discriminator = <<78, 217, 28, 185, 88, 104, 255, 231>> -> Some("OpenPositionWithMetadata")
      [] discriminator = <<46, 156, 243, 118, 13, 205, 251, 178>> -> Some("IncreaseLiquidity")
      [] discriminator = <<160, 38, 208, 111, 104, 91, 44, 1>> -> Some("DecreaseLiquidity")
      [] discriminator = <<173, 178, 66, 24, 33, 156, 204, 31>> -> Some("UpdateFeesAndRewards")
      [] discriminator = <<164, 152, 207, 99, 30, 186, 19, 182>> -> Some("CollectFees")
      [] discriminator = <<206, 68, 114, 253, 168, 177, 245, 180>> -> Some("CollectReward")
      [] discriminator = <<22, 67, 23, 98, 150, 178, 70, 220>> -> Some("CollectProtocolFees")
      [] discriminator = <<248, 198, 158, 145, 225, 117, 135, 200>> -> Some("Swap")
      [] discriminator = <<123, 134, 81, 0, 49, 68, 98, 98>> -> Some("ClosePosition")
      [] discriminator = <<43, 4, 237, 11, 26, 201, 30, 98>> -> Some("SwapV2")
      [] discriminator = <<195, 96, 237, 108, 68, 162, 219, 230>> -> Some("TwoHopSwap")
      [] discriminator = <<186, 143, 209, 29, 254, 2, 194, 117>> -> Some("TwoHopSwapV2")
      [] OTHER -> None

\* parse_swap_instruction writing the price limit into post_sqrt_price too
orca_whirlpool_parse_swap_instruction_post_price(data, accounts, ctx) ==
    LET amount == read_u64_le(data, 0)
        other_amount_threshold == read_u64_le(data, 8)
        sqrt_price_limit == read_u128_le(data, 16)
        amount_specified_is_input == read_bool(data, 32)
        a_to_b == read_bool(data, 33)
        whirlpool == get_account(accounts, 1)
    IN  IF ~AllSome(<<amount, other_amount_threshold, sqrt_price_limit,
                      amount_specified_is_input, a_to_b, whirlpool>>)
        THEN NoEvent
        ELSE [type |-> "OrcaWhirlpoolSwap",
              metadata |-> create_metadata_simple(ctx, whirlpool.v),
              whirlpool |-> whirlpool.v,
              a_to_b |-> a_to_b.v,
              pre_sqrt_price |-> sqrt_price_limit.v,
              post_sqrt_price |-> sqrt_price_limit.v,
              input_amount |-> IF amount_specified_is_input.v
                               THEN amount.v ELSE U64(0),
              output_amount |-> IF ~amount_specified_is_input.v
                                THEN amount.v ELSE other_amount_threshold.v,
              input_transfer_fee |-> U64(0),
              output_transfer_fee |-> U64(0),
              lp_fee |-> U64(0),
              protocol_fee |-> U64(0)]

orca_whirlpool_parse_swap_instruction(data, accounts, ctx) ==
    LET amount == read_u64_le(data, 0)
        other_amount_threshold == read_u64_le(data, 8)
        sqrt_price_limit == read_u128_le(data, 16)
        amount_specified_is_input == read_bool(data, 32)
        a_to_b == read_bool(data, 33)
        whirlpool == get_account(accounts, 1)
    IN  IF ~AllSome(<<amount, other_amount_threshold, sqrt_price_limit,
                      amount_specified_is_input, a_to_b, whirlpool>>)
        THEN NoEvent
        ELSE [type |-> "OrcaWhirlpoolSwap",
              metadata |-> create_metadata_simple(ctx, whirlpool.v),
              whirlpool |-> whirlpool.v,
              a_to_b |-> a_to_b.v,
              pre_sqrt_price |-> sqrt_price_limit.v,
              post_sqrt_price |-> U128(0),
              input_amount |-> IF amount_specified_is_input.v
                               THEN amount.v ELSE U64(0),
              output_amount |-> IF ~amount_specified_is_input.v
                                THEN amount.v ELSE other_amount_threshold.v,
              input_transfer_fee |-> U64(0),
              output_transfer_fee |-> U64(0),
              lp_fee |-> U64(0),
              protocol_fee |-> U64(0)]

orca_whirlpool_parse_increase_liquidity_instruction(data, accounts, ctx) ==
    LET liquidity_amount == read_u128_le(data, 0)
        token_max_a == read_u64_le(data, 16)
        token_max_b == read_u64_le(data, 24)
        whirlpool == get_account(accounts, 1)
        position == get_account(accounts, 3)
    IN  IF ~AllSome(<<liquidity_amount, token_max_a, token_max_b,
                      whirlpool, position>>)
        THEN NoEvent
        ELSE [type |-> "OrcaWhirlpoolLiquidityIncreased",
              metadata |-> create_metadata_simple(ctx, whirlpool.v),
              whirlpool |-> whirlpool.v,
              position |-> position.v,
              tick_lower_index |-> 0,
              tick_upper_index |-> 0,
              liquidity |-> liquidity_amount.v,
              token_a_amount |-> token_max_a.v,
              token_b_amount |-> token_max_b.v,
              token_a_transfer_fee |-> U64(0),
              token_b_transfer_fee |-> U64(0)]

orca_whirlpool_parse_decrease_liquidity_instruction(data, accounts, ctx) ==
    LET liquidity_amount == read_u128_le(data, 0)
        token_min_a == read_u64_le(data, 16)
        token_min_b == read_u64_le(data, 24)
        whirlpool == get_account(accounts, 1)
        position == get_account(accounts, 3)
    IN  IF ~AllSome(<<liquidity_amount, token_min_a, token_min_b,
                      whirlpool, position>>)
        THEN NoEvent
        ELSE [type |-> "OrcaWhirlpoolLiquidityDecreased",
              metadata |-> create_metadata_simple(ctx, whirlpool.v),
              whirlpool |-> whirlpool.v,
              position |-> position.v,
              tick_lower_index |-> 0,
              tick_upper_index |-> 0,
              liquidity |-> liquidity_amount.v,
              token_a_amount |-> token_min_a.v,
              token_b_amount |-> token_min_b.v,
              token_a_transfer_fee |-> U64(0),
              token_b_transfer_fee |-> U64(0)]

\* parse_initialize_pool_instruction tolerating every slot but the whirlpool
orca_whirlpool_parse_initialize_pool_instruction_tolerant(data, accounts, ctx) ==
    LET tick_spacing == read_u16_le(data, 0)
        initial_sqrt_price == read_u128_le(data, 2)
        whirlpool == get_account(accounts, 1)
    IN  IF ~AllSome(<<tick_spacing, initial_sqrt_price, whirlpool>>)
        THEN NoEvent
        ELSE [type |-> "OrcaWhirlpoolPoolInitialized",
              metadata |-> create_metadata_simple(ctx, whirlpool.v),
              whirlpool |-> whirlpool.v,
              whirlpools_config |-> unwrap_or_default(get_account(accounts, 2)),
              token_mint_a |-> unwrap_or_default(get_account(accounts, 3)),
              token_mint_b |-> unwrap_or_default(get_account(accounts, 4)),
              tick_spacing |-> tick_spacing.v,
              token_program_a |-> unwrap_or_default(get_account(accounts, 8)),
              token_program_b |-> unwrap_or_default(get_account(accounts, 9)),
              decimals_a |-> 0,
              decimals_b |-> 0,
              initial_sqrt_price |-> initial_sqrt_price.v]

orca_whirlpool_parse_initialize_pool_instruction(data, accounts, ctx) ==
    LET tick_spacing == read_u16_le(data, 0)
        initial_sqrt_price == read_u128_le(data, 2)
        whirlpool == get_account(accounts, 1)
        whirlpools_config == get_account(accounts, 2)
        token_mint_a == get_account(accounts, 3)
        token_mint_b == get_account(accounts, 4)
    IN  IF ~AllSome(<<tick_spacing, initial_sqrt_price, whirlpool,
                      whirlpools_config, token_mint_a, token_mint_b>>)
        THEN NoEvent
        ELSE [type |-> "OrcaWhirlpoolPoolInitialized",
              metadata |-> create_metadata_simple(ctx, whirlpool.v),
              whirlpool |-> whirlpool.v,
              whirlpools_config |-> whirlpools_config.v,
              token_mint_a |-> token_mint_a.v,
              token_mint_b |-> token_mint_b.v,
              tick_spacing |-> tick_spacing.v,
              token_program_a |-> unwrap_or_default(get_account(accounts, 8)),
              token_program_b |-> unwrap_or_default(get_account(accounts, 9)),
              decimals_a |-> 0,
              decimals_b |-> 0,
              initial_sqrt_price |-> initial_sqrt_price.v]

orca_whirlpool_parse_instruction(instruction_data, accounts, ctx) ==
    IF Len(instruction_data) < 8 THEN NoEvent
    ELSE LET discriminator == Slice(instruction_data, 0, 8)
             instruction_type == orca_whirlpool_from_discriminator(discriminator)
             data == SubSeq(instruction_data, 9, Len(instruction_data))
         IN  IF ~instruction_type.some THEN NoEvent
             ELSE CASE instruction_type.v \in {"Swap", "SwapV2"} ->
                         orca_whirlpool_parse_swap_instruction(data, accounts, ctx)
                    [] instruction_type.v \in {"IncreaseLiquidity", "IncreaseLiquidityV2"} ->
                         orca_whirlpool_parse_increase_liquidity_instruction(data, accounts, ctx)
                    [] instruction_type.v \in {"DecreaseLiquidity", "DecreaseLiquidityV2"} ->
                         orca_whirlpool_parse_decrease_liquidity_instruction(data, accounts, ctx)
                    [] instruction_type.v \in {"InitializePool", "InitializePoolV2"} ->
                         orca_whirlpool_parse_initialize_pool_instruction(data, accounts, ctx)
                    [] OTHER -> NoEvent

-----------------------------------------------------------------------------
(* PumpSwap instruction decoder: src/src/instr/pump_amm.rs *)

PUMP_AMM_BUY == <<102, 6, 61, 18, 1, 218, 235, 234>>
PUMP_AMM_SELL == <<51, 230, 133, 164, 1, 127, 131, 173>>
PUMP_AMM_CREATE_POOL == <<233, 146, 209, 142, 207, 104, 64, 188>>

\* the default fee rate stamped by parse_create_pool_instruction
PUMP_AMM_DEFAULT_FEE_RATE == 100

pump_amm_parse_buy_instruction(data, accounts, ctx) ==
    LET sol_amount == read_u64_le(data, 0)
        slippage == read_u16_le(data, 8)
        token_mint == get_account(accounts, 0)
    IN  IF ~AllSome(<<sol_amount, slippage, token_mint>>) THEN NoEvent
        ELSE [type |-> "PumpSwapBuy",
              metadata |-> create_metadata_simple(ctx, token_mint.v),
              pool_id |-> unwrap_or_default(get_account(accounts, 1)),
              user |-> unwrap_or_default(get_account(accounts, 2)),
              token_mint |-> token_mint.v,
              sol_amount |-> sol_amount.v,
              token_amount |-> U64(0),
              price |-> U64(0),
              slippage |-> slippage.v]

pump_amm_parse_sell_instruction(data, accounts, ctx) ==
    LET token_amount == read_u64_le(data, 0)
        slippage == read_u16_le(data, 8)
        token_mint == get_account(accounts, 0)
    IN  IF ~AllSome(<<token_amount, slippage, token_mint>>) THEN NoEvent
        ELSE [type |-> "PumpSwapSell",
              metadata |-> create_metadata_simple(ctx, token_mint.v),
              pool_id |-> unwrap_or_default(get_account(accounts, 1)),
              user |-> unwrap_or_default(get_account(accounts, 2)),
              token_mint |-> token_mint.v,
              token_amount |-> token_amount.v,
              sol_amount |-> U64(0),
              price |-> U64(0),
              slippage |-> slippage.v]

pump_amm_parse_create_pool_instruction(data, accounts, ctx) ==
    LET initial_sol_reserve == read_u64_le(data, 0)
        initial_token_reserve == read_u64_le(data, 8)
        token_mint == get_account(accounts, 0)
    IN  IF ~AllSome(<<initial_sol_reserve, initial_token_reserve, token_mint>>)
        THEN NoEvent
        ELSE [type |-> "PumpSwapCreatePool",
              metadata |-> create_metadata_simple(ctx, token_mint.v),
              pool_id |-> unwrap_or_default(get_account(accounts, 2)),
              creator |-> unwrap_or_default(get_account(accounts, 1)),
              token_mint |-> token_mint.v,
              initial_sol_amount |-> initial_sol_reserve.v,
              initial_token_amount |-> initial_token_reserve.v,
              fee_rate |-> PUMP_AMM_DEFAULT_FEE_RATE]

pump_amm_parse_instruction(instruction_data, accounts, ctx) ==
    IF Len(instruction_data) < 8 THEN NoEvent
    ELSE LET discriminator == Slice(instruction_data, 0, 8)
             data == SubSeq(instruction_data, 9, Len(instruction_data))
         IN  CASE discriminator = PUMP_AMM_BUY ->
                    pump_amm_parse_buy_instruction(data, accounts, ctx)
               [] discriminator = PUMP_AMM_SELL ->
                    pump_amm_parse_sell_instruction(data, accounts, ctx)
               [] discriminator = PUMP_AMM_CREATE_POOL ->
                    pump_amm_parse_create_pool_instruction(data, accounts, ctx)
               [] OTHER -> NoEvent

-----------------------------------------------------------------------------
(* Meteora DAMM V2 instruction decoder: src/src/instr/meteora_damm.rs *)

\* MeteoraDammV2Instruction::from_discriminator
meteora_damm_from_discriminator(discriminator) ==
    CASE discriminator = <<228, 50, 246, 85, 203, 66, 134, 37>> -> Some("InitializeLbPair")
      [] discriminator = <<129, 91, 188, 3, 246, 52, 185, 249>> -> Some("InitializeReward")
      [] discriminator = <<175, 242, 8, 157, 30, 247, 185, 169>> -> Some("AddLiquidity")
      [] discriminator = <<87, 46, 88, 98, 175, 96, 34, 91>> -> Some("RemoveLiquidity")
      [] discriminator = <<156, 15, 119, 198, 29, 181, 221, 55>> -> Some("InitializePosition")
      [] discriminator = <<20, 145, 144, 68, 143, 142, 214, 178>> -> Some("ClosePosition")
      [] discriminator = <<27, 60, 21, 213, 138, 170, 187, 147>> -> Some("Swap")
      [] discriminator = <<218, 86, 147, 200, 235, 188, 215, 231>> -> Some("ClaimReward")
      [] discriminator = <<198, 182, 183, 52, 97, 12, 49, 56>> -> Some("ClaimPositionFee")
      [] discriminator = <<104, 233, 237, 122, 199, 191, 121, 85>> -> Some("FundReward")
      [] OTHER -> None

\* read_bin_liquidity_distribution and read_bin_liquidity_removal: both
\* return Some(vec![]) whatever the data
meteora_damm_read_bin_liquidity_distribution(data, offset) == Some(<<>>)

meteora_damm_read_bin_liquidity_removal(data, offset) == Some(<<>>)

meteora_damm_parse_swap_instruction(data, accounts, ctx) ==
    LET amount_in == read_u64_le(data, 0)
        min_amount_out == read_u64_le(data, 8)
        lb_pair == get_account(accounts, 0)
        user == get_account(accounts, 7)
    IN  IF ~AllSome(<<amount_in, min_amount_out, lb_pair, user>>) THEN NoEvent
        ELSE [type |-> "MeteoraDammV2Swap",
              metadata |-> create_metadata_simple(ctx, lb_pair.v),
              lb_pair |-> lb_pair.v,
              from |-> user.v,
              start_bin_id |-> 0,
              end_bin_id |-> 0,
              amount_in |-> amount_in.v,
              amount_out |-> min_amount_out.v,
              swap_for_y |-> FALSE,
              fee |-> U64(0),
              protocol_fee |-> U64(0),
              fee_bps |-> U128(0),
              host_fee |-> U64(0)]

meteora_damm_parse_add_liquidity_instruction(data, accounts, ctx) ==
    LET amount_x == read_u64_le(data, 0)
        amount_y == read_u64_le(data, 8)
        bin_liquidity_dist == meteora_damm_read_bin_liquidity_distribution(data, 16)
        lb_pair == get_account(accounts, 0)
        position == get_account(accounts, 1)
        user == get_account(accounts, 2)
    IN  IF ~AllSome(<<amount_x, amount_y, bin_liquidity_dist, lb_pair,
                      position, user>>)
        THEN NoEvent
        ELSE [type |-> "MeteoraDammV2AddLiquidity",
              metadata |-> create_metadata_simple(ctx, lb_pair.v),
              lb_pair |-> lb_pair.v,
              from |-> user.v,
              position |-> position.v,
              amounts |-> <<amount_x.v, amount_y.v>>,
              active_bin_id |-> 0]

meteora_damm_parse_remove_liquidity_instruction(data, accounts, ctx) ==
    LET bin_liquidity_removal == meteora_damm_read_bin_liquidity_removal(data, 0)
        lb_pair == get_account(accounts, 0)
        position == get_account(accounts, 1)
        user == get_account(accounts, 2)
    IN  IF ~AllSome(<<bin_liquidity_removal, lb_pair, position, user>>)
        THEN NoEvent
        ELSE [type |-> "MeteoraDammV2RemoveLiquidity",
              metadata |-> create_metadata_simple(ctx, lb_pair.v),
              lb_pair |-> lb_pair.v,
              from |-> user.v,
              position |-> position.v,
              amounts |-> <<U64(0), U64(0)>>,
              active_bin_id |-> 0]

meteora_damm_parse_initialize_lb_pair_instruction(data, accounts, ctx) ==
    LET active_id == read_u32_le(data, 0)
        bin_step == read_u16_le(data, 4)
        lb_pair == get_account(accounts, 0)
        token_x == get_account(accounts, 2)
        token_y == get_account(accounts, 3)
    IN  IF ~AllSome(<<active_id, bin_step, lb_pair, token_x, token_y>>)
        THEN NoEvent
        ELSE [type |-> "MeteoraDammV2InitializePool",
              metadata |-> create_metadata_simple(ctx, lb_pair.v),
              lb_pair |-> lb_pair.v,
              bin_step |-> bin_step.v,
              token_x |-> token_x.v,
              token_y |-> token_y.v]

meteora_damm_parse_initialize_position_instruction(data, accounts, ctx) ==
    LET lb_pair == get_account(accounts, 0)
        position == get_account(accounts, 1)
        owner == get_account(accounts, 2)
    IN  IF ~AllSome(<<lb_pair, position, owner>>) THEN NoEvent
        ELSE [type |-> "MeteoraDammV2CreatePosition",
              metadata |-> create_metadata_simple(ctx, lb_pair.v),
              lb_pair |-> lb_pair.v,
              position |-> position.v,
              owner |-> owner.v]

meteora_damm_parse_close_position_instruction(data, accounts, ctx) ==
    LET position == get_account(accounts, 0)
        owner == get_account(accounts, 1)
    IN  IF ~AllSome(<<position, owner>>) THEN NoEvent
        ELSE [type |-> "MeteoraDammV2ClosePosition",
              metadata |-> create_metadata_simple(ctx, position.v),
              position |-> position.v,
              owner |-> owner.v]

meteora_damm_parse_claim_position_fee_instruction(data, accounts, ctx) ==
    LET lb_pair == get_account(accounts, 0)
        position == get_account(accounts, 1)
        owner == get_account(accounts, 2)
    IN  IF ~AllSome(<<lb_pair, position, owner>>) THEN NoEvent
        ELSE [type |-> "MeteoraDammV2ClaimPositionFee",
              metadata |-> create_metadata_simple(ctx, lb_pair.v),
              lb_pair |-> lb_pair.v,
              position |-> position.v,
              owner |-> owner.v,
              fee_x |-> U64(0),
              fee_y |-> U64(0)]

meteora_damm_parse_initialize_reward_instruction(data, accounts, ctx) ==
    LET reward_index == read_u64_le(data, 0)
        reward_duration == read_u64_le(data, 8)
        lb_pair == get_account(accounts, 0)
        reward_mint == get_account(accounts, 1)
        funder == get_account(accounts, 2)
    IN  IF ~AllSome(<<reward_index, reward_duration, lb_pair, reward_mint, funder>>)
        THEN NoEvent
        ELSE [type |-> "MeteoraDammV2InitializeReward",
              metadata |-> create_metadata_simple(ctx, lb_pair.v),
              lb_pair |-> lb_pair.v,
              reward_mint |-> reward_mint.v,
              funder |-> funder.v,
              reward_index |-> reward_index.v,
              reward_duration |-> reward_duration.v]

meteora_damm_parse_fund_reward_instruction(data, accounts, ctx) ==
    LET reward_index == read_u64_le(data, 0)
        amount == read_u64_le(data, 8)
        lb_pair == get_account(accounts, 0)
        funder == get_account(accounts, 1)
    IN  IF ~AllSome(<<reward_index, amount, lb_pair, funder>>) THEN NoEvent
        ELSE [type |-> "MeteoraDammV2FundReward",
              metadata |-> create_metadata_simple(ctx, lb_pair.v),
              lb_pair |-> lb_pair.v,
              funder |-> funder.v,
              reward_index |-> reward_index.v,
              amount |-> amount.v]

meteora_damm_parse_claim_reward_instruction(data, accounts, ctx) ==
    LET reward_index == read_u64_le(data, 0)
        lb_pair == get_account(accounts, 0)
        position == get_account(accounts, 1)
        owner == get_account(accounts, 2)
    IN  IF ~AllSome(<<reward_index, lb_pair, position, owner>>) THEN NoEvent
        ELSE [type |-> "MeteoraDammV2ClaimReward",
              metadata |-> create_metadata_simple(ctx, lb_pair.v),
              lb_pair |-> lb_pair.v,
              position |-> position.v,
              owner |-> owner.v,
              reward_index |-> reward_index.v,
              total_reward |-> U64(0)]

meteora_damm_parse_instruction(instruction_data, accounts, ctx) ==
    IF Len(instruction_data) < 8 THEN NoEvent
    ELSE LET discriminator == Slice(instruction_data, 0, 8)
             instruction_type == meteora_damm_from_discriminator(discriminator)
             data == SubSeq(instruction_data, 9, Len(instruction_data))
         IN  IF ~instruction_type.some THEN NoEvent
             ELSE CASE instruction_type.v = "Swap" ->
                         meteora_damm_parse_swap_instruction(data, accounts, ctx)
                    [] instruction_type.v = "AddLiquidity" ->
                         meteora_damm_parse_add_liquidity_instruction(data, accounts, ctx)
                    [] instruction_type.v = "RemoveLiquidity" ->
                         meteora_damm_parse_remove_liquidity_instruction(data, accounts, ctx)
                    [] instruction_type.v = "InitializeLbPair" ->
                         meteora_damm_parse_initialize_lb_pair_instruction(data, accounts, ctx)
                    [] instruction_type.v = "InitializePosition" ->
                         meteora_damm_parse_initialize_position_instruction(data, accounts, ctx)
                    [] instruction_type.v = "ClosePosition" ->
                         meteora_damm_parse_close_position_instruction(data, accounts, ctx)
                    [] instruction_type.v = "ClaimPositionFee" ->
                         meteora_damm_parse_claim_position_fee_instruction(data, accounts, ctx)
                    [] instruction_type.v = "InitializeReward" ->
                         meteora_damm_parse_initialize_reward_instruction(data, accounts, ctx)
                    [] instruction_type.v = "FundReward" ->
                         meteora_damm_parse_fund_reward_instruction(data, accounts, ctx)
                    [] instruction_type.v = "ClaimReward" ->
                         meteora_damm_parse_claim_reward_instruction(data, accounts, ctx)
                    [] OTHER -> NoEvent

-----------------------------------------------------------------------------
(* Unified instruction dispatch: src/src/instr/mod.rs *)

\* The program-ID constants of instr::program_ids.  Each stands for one
\* 32-byte address; the ten addresses are pairwise distinct.  The PumpSwap
\* address is the one the account decoders use (PUMPSWAP_PROGRAM_ID above).
PUMPFUN_PROGRAM_ID == "PUMPFUN_PROGRAM_ID"
RAYDIUM_AMM_V4_PROGRAM_ID == "RAYDIUM_AMM_V4_PROGRAM_ID"
RAYDIUM_CLMM_PROGRAM_ID == "RAYDIUM_CLMM_PROGRAM_ID"
ORCA_WHIRLPOOL_PROGRAM_ID == "ORCA_WHIRLPOOL_PROGRAM_ID"
RAYDIUM_CPMM_PROGRAM_ID == "RAYDIUM_CPMM_PROGRAM_ID"
METEORA_DAMM_V2_PROGRAM_ID == "METEORA_DAMM_V2_PROGRAM_ID"
METEORA_DLMM_PROGRAM_ID == "METEORA_DLMM_PROGRAM_ID"
BONK_PROGRAM_ID == "BONK_PROGRAM_ID"
METEORA_POOLS_PROGRAM_ID == "METEORA_POOLS_PROGRAM_ID"

\* The decoders of pumpfun.rs, raydium_cpmm.rs, meteora_dlmm.rs,
\* raydium_launchpad.rs and meteora_amm.rs: each returns absence or an event
\* of its own family, as its code decides (outcome).
parse_pumpfun_instruction(instruction_data, accounts, ctx, outcome) ==
    IF outcome THEN [type |-> "PumpFunTrade"] ELSE NoEvent

parse_raydium_cpmm_instruction(instruction_data, accounts, ctx, outcome) ==
    IF outcome THEN [type |-> "RaydiumCpmmSwap"] ELSE NoEvent

parse_meteora_dlmm_instruction(instruction_data, accounts, ctx, outcome) ==
    IF outcome THEN [type |-> "MeteoraDlmmSwap"] ELSE NoEvent

parse_raydium_launchpad_instruction(instruction_data, accounts, ctx, outcome) ==
    IF outcome THEN [type |-> "BonkTrade"] ELSE NoEvent

parse_meteora_amm_instruction(instruction_data, accounts, ctx, outcome) ==
    IF outcome THEN [type |-> "MeteoraPoolsSwap"] ELSE NoEvent

\* parse_instruction_unified testing Orca Whirlpool before Raydium CLMM and
\* handing both programs to the first decoder that knows the discriminator
parse_instruction_unified_by_discriminator(instruction_data, accounts, ctx, program_id, outcome) ==
    IF instruction_data = <<>> THEN NoEvent
    ELSE CASE program_id = PUMPFUN_PROGRAM_ID ->
                parse_pumpfun_instruction(instruction_data, accounts, ctx, outcome)
           [] program_id = RAYDIUM_AMM_V4_PROGRAM_ID ->
                raydium_amm_parse_instruction(instruction_data, accounts, ctx)
           [] program_id \in {RAYDIUM_CLMM_PROGRAM_ID, ORCA_WHIRLPOOL_PROGRAM_ID} ->
                LET orca == orca_whirlpool_parse_instruction(instruction_data, accounts, ctx)
                IN  IF orca # NoEvent THEN orca
                    ELSE raydium_clmm_parse_instruction(instruction_data, accounts, ctx)
           [] program_id = RAYDIUM_CPMM_PROGRAM_ID ->
                parse_raydium_cpmm_instruction(instruction_data, accounts, ctx, outcome)
           [] program_id = METEORA_DAMM_V2_PROGRAM_ID ->
                meteora_damm_parse_instruction(instruction_data, accounts, ctx)
           [] program_id = METEORA_DLMM_PROGRAM_ID ->
                parse_meteora_dlmm_instruction(instruction_data, accounts, ctx, outcome)
           [] program_id = BONK_PROGRAM_ID ->
                parse_raydium_launchpad_instruction(instruction_data, accounts, ctx, outcome)
           [] program_id = PUMPSWAP_PROGRAM_ID ->
                pump_amm_parse_instruction(instruction_data, accounts, ctx)
           [] program_id = METEORA_POOLS_PROGRAM_ID ->
                parse_meteora_amm_instruction(instruction_data, accounts, ctx, outcome)
           [] OTHER -> NoEvent

\* the chain of equality tests, in the order of the source
parse_instruction_unified(instruction_data, accounts, ctx, program_id, outcome) ==
    IF instruction_data = <<>> THEN NoEvent
    ELSE IF program_id = PUMPFUN_PROGRAM_ID THEN
        parse_pumpfun_instruction(instruction_data, accounts, ctx, outcome)
    ELSE IF program_id = RAYDIUM_AMM_V4_PROGRAM_ID THEN
        raydium_amm_parse_instruction(instruction_data, accounts, ctx)
    ELSE IF program_id = RAYDIUM_CLMM_PROGRAM_ID THEN
        raydium_clmm_parse_instruction(instruction_data, accounts, ctx)
    ELSE IF program_id = ORCA_WHIRLPOOL_PROGRAM_ID THEN
        orca_whirlpool_parse_instruction(instruction_data, accounts, ctx)
    ELSE IF program_id = RAYDIUM_CPMM_PROGRAM_ID THEN
        parse_raydium_cpmm_instruction(instruction_data, accounts, ctx, outcome)
    ELSE IF program_id = METEORA_DAMM_V2_PROGRAM_ID THEN
        meteora_damm_parse_instruction(instruction_data, accounts, ctx)
    ELSE IF program_id = METEORA_DLMM_PROGRAM_ID THEN
        parse_meteora_dlmm_instruction(instruction_data, accounts, ctx, outcome)
    ELSE IF program_id = BONK_PROGRAM_ID THEN
        parse_raydium_launchpad_instruction(instruction_data, accounts, ctx, outcome)
    ELSE IF program_id = PUMPSWAP_PROGRAM_ID THEN
        pump_amm_parse_instruction(instruction_data, accounts, ctx)
    ELSE IF program_id = METEORA_POOLS_PROGRAM_ID THEN
        parse_meteora_amm_instruction(instruction_data, accounts, ctx, outcome)
    ELSE NoEvent

-----------------------------------------------------------------------------
(* PumpSwap log decoder: src/src/logs/pump_amm.rs *)
(* A log line is the sequence of its characters, each a one-character      *)
(* string.                                                                  *)

\* the alphabet of base64::engine::general_purpose::STANDARD
Base64Alphabet ==
    <<"A", "B", "C", "D", "E", "F", "G", "H", "I", "J", "K", "L", "M",
      "N", "O", "P", "Q", "R", "S", "T", "U", "V", "W", "X", "Y", "Z",
      "a", "b", "c", "d", "e", "f", "g", "h", "i", "j", "k", "l", "m",
      "n", "o", "p", "q", "r", "s", "t", "u", "v", "w", "x", "y", "z",
      "0", "1", "2", "3", "4", "5", "6", "7", "8", "9", "+", "/">>

IsBase64Symbol(c) == \E i \in 1..64 : Base64Alphabet[i] = c

\* the six bits of a symbol of the alphabet
Base64Value(c) == (CHOOSE i \in 1..64 : Base64Alphabet[i] = c) - 1

\* the number of "=" that end the text
RECURSIVE TrailingPads(_)
TrailingPads(text) ==
    IF text # <<>> /\ text[Len(text)] = "="
    THEN 1 + TrailingPads(SubSeq(text, 1, Len(text) - 1))
    ELSE 0

\* STANDARD decoding: canonical padding is required, so is a zero tail in
\* the last symbol; Some(bytes), or None for a DecodeError
base64_decode(text) ==
    LET n == Len(text)
        pads == TrailingPads(text)
        symbols == n - pads
        six(i) == IF i <= symbols THEN Base64Value(text[i]) ELSE 0
        out_len == 3 * (n \div 4) - pads
        byte(k) ==
            LET g == 4 * ((k - 1) \div 3)
                j == (k - 1) % 3
            IN  CASE j = 0 -> six(g + 1) * 4 + six(g + 2) \div 16
                  [] j = 1 -> (six(g + 2) % 16) * 16 + six(g + 3) \div 4
                  [] j = 2 -> (six(g + 3) % 4) * 64 + six(g + 4)
        last == six(symbols)
    IN  IF \/ n % 4 # 0
           \/ pads > 2
           \/ \E i \in 1..symbols : ~IsBase64Symbol(text[i])
        THEN None
        ELSE IF \/ (pads = 1 /\ last % 4 # 0)
                \/ (pads = 2 /\ last % 16 # 0)
        THEN None
        ELSE Some([k \in 1..out_len |-> byte(k)])

\* the STANDARD encoding of bytes, as the program that logs it writes it
base64_encode(bytes) ==
    LET n == Len(bytes)
        b(i) == IF i <= n THEN bytes[i] ELSE 0
        out_len == 4 * ((n + 2) \div 3)
        symbol(k) ==
            LET g == 3 * ((k - 1) \div 4)
                j == (k - 1) % 4
                v == CASE j = 0 -> b(g + 1) \div 4
                       [] j = 1 -> (b(g + 1) % 4) * 16 + b(g + 2) \div 16
                       [] j = 2 -> (b(g + 2) % 16) * 4 + b(g + 3) \div 64
                       [] j = 3 -> b(g + 3) % 64
            IN  IF (j = 2 /\ g + 2 > n) \/ (j = 3 /\ g + 3 > n)
                THEN "=" ELSE Base64Alphabet[v + 1]
    IN  [k \in 1..out_len |-> symbol(k)]

\* b"Program data: "
PROGRAM_DATA_MARKER ==
    <<"P", "r", "o", "g", "r", "a", "m", " ", "d", "a", "t", "a", ":", " ">>

\* the length of the stack buffer parse_log decodes into
PROGRAM_DATA_BUF_LEN == 2048

\* memmem::Finder::find: the offset of the first occurrence of needle
find(haystack, needle) ==
    LET hits == {p \in 0..(Len(haystack) - Len(needle)) :
                    SubSeq(haystack, p + 1, p + Len(needle)) = needle}
    IN  IF hits = {} THEN None
        ELSE Some(CHOOSE p \in hits : \A q \in hits : p <= q)

IsWhitespace(c) == c \in {" ", "\t", "\n", "\r"}

\* str::trim
trim(text) ==
    LET inner == {i \in 1..Len(text) : ~IsWhitespace(text[i])}
    IN  IF inner = {} THEN <<>>
        ELSE SubSeq(text,
                    CHOOSE i \in inner : \A j \in inner : i <= j,
                    CHOOSE i \in inner : \A j \in inner : j <= i)

\* decode_slice refuses an output buffer shorter than its estimate of the
\* decoded length
extract_program_data_zero_copy(log) ==
    LET pos == find(log, PROGRAM_DATA_MARKER)
    IN  IF ~pos.some THEN None
        ELSE LET data_part == SubSeq(log, pos.v + 14 + 1, Len(log))
                 trimmed == trim(data_part)
             IN  IF 3 * ((Len(trimmed) + 3) \div 4) > PROGRAM_DATA_BUF_LEN
                 THEN None
                 ELSE base64_decode(trimmed)

\* a call that does not return: the thread panics
Panic == [panicked |-> TRUE]

\* extract_discriminator_simd reading the eight bytes behind the first one
extract_discriminator_simd_shifted(log) ==
    LET pos == find(log, PROGRAM_DATA_MARKER)
    IN  IF ~pos.some THEN None
        ELSE LET data_part == SubSeq(log, pos.v + 14 + 1, Len(log))
                 trimmed == trim(data_part)
             IN  IF Len(trimmed) < 12 THEN None
                 ELSE IF Len(trimmed) < 16 THEN Panic
                 ELSE LET decoded == base64_decode(SubSeq(trimmed, 1, 16))
                      IN  IF ~decoded.some THEN None
                          ELSE Some(from_le_bytes(
                                    Slice(decoded.v \o <<0, 0>>, 1, 8)))

\* extract_discriminator_simd: the first 16 characters of the payload are
\* decoded into a 12-byte buffer of zeros and its first 8 bytes are read
\* (read_unaligned: in the byte order of the target, little-endian on the
\* targets Solana tooling runs on).  &trimmed.as_bytes()[..16] panics when
\* the payload has fewer than 16 bytes.
extract_discriminator_simd(log) ==
    LET pos == find(log, PROGRAM_DATA_MARKER)
    IN  IF ~pos.some THEN None
        ELSE LET data_part == SubSeq(log, pos.v + 14 + 1, Len(log))
                 trimmed == trim(data_part)
             IN  IF Len(trimmed) < 12 THEN None
                 ELSE IF Len(trimmed) < 16 THEN Panic
                 ELSE LET decoded == base64_decode(SubSeq(trimmed, 1, 16))
                      IN  IF ~decoded.some THEN None
                          ELSE Some(from_le_bytes(
                                    Slice(decoded.v \o <<0, 0>>, 0, 8)))

get_event_type_fast(log) == extract_discriminator_simd(log)

\* is_event_type returns a bool
Bool(b) == [bool |-> b]

is_event_type(log, discriminator) ==
    LET found == extract_discriminator_simd(log)
    IN  IF found = Panic THEN Panic ELSE Bool(found = Some(discriminator))

\* The unchecked readers.  A read that reaches past data.len() is undefined
\* behaviour: the bytes it gets are whatever lies behind the slice (oob).
ByteAt(data, offset, oob) ==
    IF offset < Len(data) THEN data[offset + 1] ELSE oob

read_u64_unchecked(data, offset, oob) ==
    from_le_bytes([i \in 1..8 |-> ByteAt(data, offset + i - 1, oob)])

\* an i64 is kept as the limbs of its two's complement
read_i64_unchecked(data, offset, oob) ==
    from_le_bytes([i \in 1..8 |-> ByteAt(data, offset + i - 1, oob)])

read_u16_unchecked(data, offset, oob) ==
    from_le_bytes([i \in 1..2 |-> ByteAt(data, offset + i - 1, oob)])[1]

read_u8_unchecked(data, offset, oob) == ByteAt(data, offset, oob)

read_bool_unchecked(data, offset, oob) == ByteAt(data, offset, oob) = 1

read_pubkey_unchecked(data, offset, oob) ==
    [i \in 1..32 |-> ByteAt(data, offset + i - 1, oob)]

\* the EventMetadata literal of the variant decoders
log_metadata(ctx, grpc_recv_us) ==
    [signature |-> ctx.signature,
     slot |-> ctx.slot,
     tx_index |-> ctx.tx_index,
     block_time_us |-> unwrap_or(ctx.block_time_us, 0),
     grpc_recv_us |-> grpc_recv_us]

\* logs::pump_amm::discriminators
PUMP_LOG_BUY == from_le_bytes(<<103, 244, 82, 31, 44, 245, 119, 119>>)
PUMP_LOG_SELL == from_le_bytes(<<62, 47, 55, 10, 165, 3, 220, 42>>)
PUMP_LOG_CREATE_POOL == from_le_bytes(<<177, 49, 12, 210, 160, 118, 167, 116>>)
PUMP_LOG_ADD_LIQUIDITY == from_le_bytes(<<120, 248, 61, 83, 31, 142, 107, 144>>)
PUMP_LOG_REMOVE_LIQUIDITY == from_le_bytes(<<22, 9, 133, 26, 160, 44, 71, 192>>)

\* REQUIRED_LEN of parse_buy_event_optimized
BUY_REQUIRED_LEN == 14 * 8 + 7 * 32 + 1

\* the <<offset, width>> of the unchecked reads of parse_buy_event_optimized
parse_buy_event_optimized_reads ==
    {<<0, 8>>, <<8, 8>>, <<16, 8>>, <<24, 8>>, <<32, 8>>, <<40, 8>>,
     <<48, 8>>, <<56, 8>>, <<64, 8>>, <<72, 8>>, <<80, 8>>, <<88, 8>>,
     <<96, 8>>, <<104, 8>>, <<112, 32>>, <<144, 32>>, <<176, 32>>,
     <<208, 32>>, <<240, 32>>, <<272, 32>>, <<304, 32>>, <<336, 8>>,
     <<344, 8>>, <<352, 1>>, <<353, 8>>, <<361, 8>>, <<369, 8>>, <<377, 8>>}

parse_buy_event_optimized(data, ctx, grpc_recv_us, oob) ==
    IF Len(data) < BUY_REQUIRED_LEN THEN NoEvent
    ELSE [type |-> "PumpSwapBuy",
          metadata |-> log_metadata(ctx, grpc_recv_us),
          timestamp |-> read_i64_unchecked(data, 0, oob),
          base_amount_out |-> read_u64_unchecked(data, 8, oob),
          max_quote_amount_in |-> read_u64_unchecked(data, 16, oob),
          user_base_token_reserves |-> read_u64_unchecked(data, 24, oob),
          user_quote_token_reserves |-> read_u64_unchecked(data, 32, oob),
          pool_base_token_reserves |-> read_u64_unchecked(data, 40, oob),
          pool_quote_token_reserves |-> read_u64_unchecked(data, 48, oob),
          quote_amount_in |-> read_u64_unchecked(data, 56, oob),
          lp_fee_basis_points |-> read_u64_unchecked(data, 64, oob),
          lp_fee |-> read_u64_unchecked(data, 72, oob),
          protocol_fee_basis_points |-> read_u64_unchecked(data, 80, oob),
          protocol_fee |-> read_u64_unchecked(data, 88, oob),
          quote_amount_in_with_lp_fee |-> read_u64_unchecked(data, 96, oob),
          user_quote_amount_in |-> read_u64_unchecked(data, 104, oob),
          pool |-> read_pubkey_unchecked(data, 112, oob),
          user |-> read_pubkey_unchecked(data, 144, oob),
          user_base_token_account |-> read_pubkey_unchecked(data, 176, oob),
          user_quote_token_account |-> read_pubkey_unchecked(data, 208, oob),
          protocol_fee_recipient |-> read_pubkey_unchecked(data, 240, oob),
          protocol_fee_recipient_token_account |-> read_pubkey_unchecked(data, 272, oob),
          coin_creator |-> read_pubkey_unchecked(data, 304, oob),
          coin_creator_fee_basis_points |-> read_u64_unchecked(data, 336, oob),
          coin_creator_fee |-> read_u64_unchecked(data, 344, oob),
          track_volume |-> read_bool_unchecked(data, 352, oob),
          total_unclaimed_tokens |-> read_u64_unchecked(data, 353, oob),
          total_claimed_tokens |-> read_u64_unchecked(data, 361, oob),
          current_sol_volume |-> read_u64_unchecked(data, 369, oob),
          last_update_timestamp |-> read_i64_unchecked(data, 377, oob)]

\* REQUIRED_LEN of parse_sell_event_optimized
SELL_REQUIRED_LEN == 13 * 8 + 8 + 7 * 32

\* the <<offset, width>> of the unchecked reads of parse_sell_event_optimized
parse_sell_event_optimized_reads ==
    {<<0, 8>>, <<8, 8>>, <<16, 8>>, <<24, 8>>, <<32, 8>>, <<40, 8>>,
     <<48, 8>>, <<56, 8>>, <<64, 8>>, <<72, 8>>, <<80, 8>>, <<88, 8>>,
     <<96, 8>>, <<104, 8>>, <<112, 32>>, <<144, 32>>, <<176, 32>>,
     <<208, 32>>, <<240, 32>>, <<272, 32>>, <<304, 32>>, <<336, 8>>,
     <<344, 8>>}

parse_sell_event_optimized(data, ctx, grpc_recv_us, oob) ==
    IF Len(data) < SELL_REQUIRED_LEN THEN NoEvent
    ELSE [type |-> "PumpSwapSell",
          metadata |-> log_metadata(ctx, grpc_recv_us),
          timestamp |-> read_i64_unchecked(data, 0, oob),
          base_amount_in |-> read_u64_unchecked(data, 8, oob),
          min_quote_amount_out |-> read_u64_unchecked(data, 16, oob),
          user_base_token_reserves |-> read_u64_unchecked(data, 24, oob),
          user_quote_token_reserves |-> read_u64_unchecked(data, 32, oob),
          pool_base_token_reserves |-> read_u64_unchecked(data, 40, oob),
          pool_quote_token_reserves |-> read_u64_unchecked(data, 48, oob),
          quote_amount_out |-> read_u64_unchecked(data, 56, oob),
          lp_fee_basis_points |-> read_u64_unchecked(data, 64, oob),
          lp_fee |-> read_u64_unchecked(data, 72, oob),
          protocol_fee_basis_points |-> read_u64_unchecked(data, 80, oob),
          protocol_fee |-> read_u64_unchecked(data, 88, oob),
          quote_amount_out_without_lp_fee |-> read_u64_unchecked(data, 96, oob),
          user_quote_amount_out |-> read_u64_unchecked(data, 104, oob),
          pool |-> read_pubkey_unchecked(data, 112, oob),
          user |-> read_pubkey_unchecked(data, 144, oob),
          user_base_token_account |-> read_pubkey_unchecked(data, 176, oob),
          user_quote_token_account |-> read_pubkey_unchecked(data, 208, oob),
          protocol_fee_recipient |-> read_pubkey_unchecked(data, 240, oob),
          protocol_fee_recipient_token_account |-> read_pubkey_unchecked(data, 272, oob),
          coin_creator |-> read_pubkey_unchecked(data, 304, oob),
          coin_creator_fee_basis_points |-> read_u64_unchecked(data, 336, oob),
          coin_creator_fee |-> read_u64_unchecked(data, 344, oob)]

\* REQUIRED_LEN of parse_create_pool_event_optimized
CREATE_POOL_REQUIRED_LEN == 8 + 2 + 32 * 6 + 2 + 8 * 7 + 1

\* the <<offset, width>> of the unchecked reads of parse_create_pool_event_optimized
parse_create_pool_event_optimized_reads ==
    {<<0, 8>>, <<8, 2>>, <<10, 32>>, <<42, 32>>, <<74, 32>>, <<106, 1>>,
     <<107, 1>>, <<108, 8>>, <<116, 8>>, <<124, 8>>, <<132, 8>>, <<140, 8>>,
     <<148, 8>>, <<156, 8>>, <<164, 1>>, <<165, 32>>, <<197, 32>>,
     <<229, 32>>, <<261, 32>>, <<293, 32>>}

parse_create_pool_event_optimized(data, ctx, grpc_recv_us, oob) ==
    IF Len(data) < CREATE_POOL_REQUIRED_LEN THEN NoEvent
    ELSE [type |-> "PumpSwapCreatePool",
          metadata |-> log_metadata(ctx, grpc_recv_us),
          timestamp |-> read_i64_unchecked(data, 0, oob),
          index |-> read_u16_unchecked(data, 8, oob),
          creator |-> read_pubkey_unchecked(data, 10, oob),
          base_mint |-> read_pubkey_unchecked(data, 42, oob),
          quote_mint |-> read_pubkey_unchecked(data, 74, oob),
          base_mint_decimals |-> read_u8_unchecked(data, 106, oob),
          quote_mint_decimals |-> read_u8_unchecked(data, 107, oob),
          base_amount_in |-> read_u64_unchecked(data, 108, oob),
          quote_amount_in |-> read_u64_unchecked(data, 116, oob),
          pool_base_amount |-> read_u64_unchecked(data, 124, oob),
          pool_quote_amount |-> read_u64_unchecked(data, 132, oob),
          minimum_liquidity |-> read_u64_unchecked(data, 140, oob),
          initial_liquidity |-> read_u64_unchecked(data, 148, oob),
          lp_token_amount_out |-> read_u64_unchecked(data, 156, oob),
          pool_bump |-> read_u8_unchecked(data, 164, oob),
          pool |-> read_pubkey_unchecked(data, 165, oob),
          lp_mint |-> read_pubkey_unchecked(data, 197, oob),
          user_base_token_account |-> read_pubkey_unchecked(data, 229, oob),
          user_quote_token_account |-> read_pubkey_unchecked(data, 261, oob),
          coin_creator |-> read_pubkey_unchecked(data, 293, oob)]

\* REQUIRED_LEN of parse_add_liquidity_event_optimized
ADD_LIQUIDITY_REQUIRED_LEN == 10 * 8 + 5 * 32

\* the <<offset, width>> of the unchecked reads of parse_add_liquidity_event_optimized
parse_add_liquidity_event_optimized_reads ==
    {<<0, 8>>, <<8, 8>>, <<16, 8>>, <<24, 8>>, <<32, 8>>, <<40, 8>>,
     <<48, 8>>, <<56, 8>>, <<64, 8>>, <<72, 8>>, <<80, 8>>, <<88, 32>>,
     <<120, 32>>, <<152, 32>>, <<184, 32>>, <<216, 32>>}

parse_add_liquidity_event_optimized(data, ctx, grpc_recv_us, oob) ==
    IF Len(data) < ADD_LIQUIDITY_REQUIRED_LEN THEN NoEvent
    ELSE [type |-> "PumpSwapLiquidityAdded",
          metadata |-> log_metadata(ctx, grpc_recv_us),
          timestamp |-> read_i64_unchecked(data, 0, oob),
          lp_token_amount_out |-> read_u64_unchecked(data, 8, oob),
          max_base_amount_in |-> read_u64_unchecked(data, 16, oob),
          max_quote_amount_in |-> read_u64_unchecked(data, 24, oob),
          user_base_token_reserves |-> read_u64_unchecked(data, 32, oob),
          user_quote_token_reserves |-> read_u64_unchecked(data, 40, oob),
          pool_base_token_reserves |-> read_u64_unchecked(data, 48, oob),
          pool_quote_token_reserves |-> read_u64_unchecked(data, 56, oob),
          base_amount_in |-> read_u64_unchecked(data, 64, oob),
          quote_amount_in |-> read_u64_unchecked(data, 72, oob),
          lp_mint_supply |-> read_u64_unchecked(data, 80, oob),
          pool |-> read_pubkey_unchecked(data, 88, oob),
          user |-> read_pubkey_unchecked(data, 120, oob),
          user_base_token_account |-> read_pubkey_unchecked(data, 152, oob),
          user_quote_token_account |-> read_pubkey_unchecked(data, 184, oob),
          user_pool_token_account |-> read_pubkey_unchecked(data, 216, oob)]

\* REQUIRED_LEN of parse_remove_liquidity_event_optimized
REMOVE_LIQUIDITY_REQUIRED_LEN == 10 * 8 + 5 * 32

\* the <<offset, width>> of the unchecked reads of parse_remove_liquidity_event_optimized
parse_remove_liquidity_event_optimized_reads ==
    {<<0, 8>>, <<8, 8>>, <<16, 8>>, <<24, 8>>, <<32, 8>>, <<40, 8>>,
     <<48, 8>>, <<56, 8>>, <<64, 8>>, <<72, 8>>, <<80, 8>>, <<88, 32>>,
     <<120, 32>>, <<152, 32>>, <<184, 32>>, <<216, 32>>}

parse_remove_liquidity_event_optimized(data, ctx, grpc_recv_us, oob) ==
    IF Len(data) < REMOVE_LIQUIDITY_REQUIRED_LEN THEN NoEvent
    ELSE [type |-> "PumpSwapLiquidityRemoved",
          metadata |-> log_metadata(ctx, grpc_recv_us),
          timestamp |-> read_i64_unchecked(data, 0, oob),
          lp_token_amount_in |-> read_u64_unchecked(data, 8, oob),
          min_base_amount_out |-> read_u64_unchecked(data, 16, oob),
          min_quote_amount_out |-> read_u64_unchecked(data, 24, oob),
          user_base_token_reserves |-> read_u64_unchecked(data, 32, oob),
          user_quote_token_reserves |-> read_u64_unchecked(data, 40, oob),
          pool_base_token_reserves |-> read_u64_unchecked(data, 48, oob),
          pool_quote_token_reserves |-> read_u64_unchecked(data, 56, oob),
          base_amount_out |-> read_u64_unchecked(data, 64, oob),
          quote_amount_out |-> read_u64_unchecked(data, 72, oob),
          lp_mint_supply |-> read_u64_unchecked(data, 80, oob),
          pool |-> read_pubkey_unchecked(data, 88, oob),
          user |-> read_pubkey_unchecked(data, 120, oob),
          user_base_token_account |-> read_pubkey_unchecked(data, 152, oob),
          user_quote_token_account |-> read_pubkey_unchecked(data, 184, oob),
          user_pool_token_account |-> read_pubkey_unchecked(data, 216, oob)]

\* parse_log gets past its two early returns to the perf-stats block
pump_amm_parse_log_counted(log) ==
    LET program_data == extract_program_data_zero_copy(log)
    IN  program_data.some /\ Len(program_data.v) >= 8

pump_amm_parse_log(log, ctx, grpc_recv_us, oob) ==
    LET program_data == extract_program_data_zero_copy(log)
    IN  IF ~program_data.some THEN NoEvent
        ELSE IF Len(program_data.v) < 8 THEN NoEvent
        ELSE LET discriminator == read_u64_unchecked(program_data.v, 0, oob)
                 data == SubSeq(program_data.v, 9, Len(program_data.v))
             IN  CASE discriminator = PUMP_LOG_BUY ->
                        parse_buy_event_optimized(data, ctx, grpc_recv_us, oob)
                   [] discriminator = PUMP_LOG_SELL ->
                        parse_sell_event_optimized(data, ctx, grpc_recv_us, oob)
                   [] discriminator = PUMP_LOG_CREATE_POOL ->
                        parse_create_pool_event_optimized(data, ctx, grpc_recv_us, oob)
                   [] discriminator = PUMP_LOG_ADD_LIQUIDITY ->
                        parse_add_liquidity_event_optimized(data, ctx, grpc_recv_us, oob)
                   [] discriminator = PUMP_LOG_REMOVE_LIQUIDITY ->
                        parse_remove_liquidity_event_optimized(data, ctx, grpc_recv_us, oob)
                   [] OTHER -> NoEvent

\* the unchecked reads a call of parse_log performs on the variant record:
\* each with the decoder, the length of the record and the length the
\* decoder checked
pump_amm_unchecked_reads(log) ==
    LET program_data == extract_program_data_zero_copy(log)
        reads(fn, required, table, len) ==
            IF len < required THEN {}
            ELSE {[fn |-> fn, offset |-> r[1], width |-> r[2],
                   len |-> len, required_len |-> required] : r \in table}
    IN  IF ~program_data.some THEN {}
        ELSE IF Len(program_data.v) < 8 THEN {}
        ELSE LET discriminator == read_u64_unchecked(program_data.v, 0, 0)
                 len == Len(program_data.v) - 8
             IN  CASE discriminator = PUMP_LOG_BUY ->
                        reads("parse_buy_event_optimized", BUY_REQUIRED_LEN,
                              parse_buy_event_optimized_reads, len)
                   [] discriminator = PUMP_LOG_SELL ->
                        reads("parse_sell_event_optimized", SELL_REQUIRED_LEN,
                              parse_sell_event_optimized_reads, len)
                   [] discriminator = PUMP_LOG_CREATE_POOL ->
                        reads("parse_create_pool_event_optimized",
                              CREATE_POOL_REQUIRED_LEN,
                              parse_create_pool_event_optimized_reads, len)
                   [] discriminator = PUMP_LOG_ADD_LIQUIDITY ->
                        reads("parse_add_liquidity_event_optimized",
                              ADD_LIQUIDITY_REQUIRED_LEN,
                              parse_add_liquidity_event_optimized_reads, len)
                   [] discriminator = PUMP_LOG_REMOVE_LIQUIDITY ->
                        reads("parse_remove_liquidity_event_optimized",
                              REMOVE_LIQUIDITY_REQUIRED_LEN,
                              parse_remove_liquidity_event_optimized_reads, len)
                   [] OTHER -> {}

-----------------------------------------------------------------------------
(* Log decoders, shared helpers: logs::utils, as sections 4.1, 4.4 and 4.6  *)
(* of the specification describe them.                                      *)

\* extract_program_data: the record of a line that holds `Program data: `,
\* its tail trimmed and base64-decoded, or None
extract_program_data(log) ==
    LET pos == find(log, PROGRAM_DATA_MARKER)
    IN  IF ~pos.some THEN None
        ELSE base64_decode(trim(SubSeq(log, pos.v + 14 + 1, Len(log))))

\* the bounds-checked readers read_pubkey, read_bool, read_u8, read_u16_le,
\* read_u32_le, read_i32_le, read_u64_le and read_u128_le: the value at
\* offset, or None when offset + width > data.len()
logs_utils_read(kind, data, offset) ==
    LET width == CASE kind = "pubkey" -> 32
                   [] kind \in {"bool", "u8"} -> 1
                   [] kind = "u16" -> 2
                   [] kind \in {"u32", "i32"} -> 4
                   [] kind = "u64" -> 8
                   [] kind = "u128" -> 16
    IN  IF offset + width > Len(data) THEN None
        ELSE Some(CASE kind = "pubkey" -> Slice(data, offset, 32)
                    [] kind = "bool" -> data[offset + 1] # 0
                    [] kind = "u8" -> data[offset + 1]
                    [] kind = "u16" -> from_le_bytes(Slice(data, offset, 2))[1]
                    [] kind = "i32" -> as_i32(from_le_bytes(Slice(data, offset, 4)))
                    [] OTHER -> from_le_bytes(Slice(data, offset, width)))

\* create_metadata_simple(signature, slot, tx_index, block_time_us, pubkey,
\* grpc_recv_us): the anchor key is not stored
logs_create_metadata_simple(ctx, pubkey, grpc_recv_us) ==
    [signature |-> ctx.signature,
     slot |-> ctx.slot,
     tx_index |-> ctx.tx_index,
     block_time_us |-> unwrap_or(ctx.block_time_us, 0),
     grpc_recv_us |-> grpc_recv_us]

\* create_metadata_default(signature, slot, tx_index, block_time_us): the
\* receive time is not handed over, the builder reads the clock
logs_create_metadata_default(ctx) ==
    [signature |-> ctx.signature,
     slot |-> ctx.slot,
     tx_index |-> ctx.tx_index,
     block_time_us |-> unwrap_or(ctx.block_time_us, 0),
     grpc_recv_us |-> clock]

-----------------------------------------------------------------------------
(* Orca Whirlpool log decoder: src/src/logs/orca_whirlpool.rs *)

\* parse_traded_event reading output_amount before input_amount
orca_whirlpool_parse_traded_event_swapped(data, ctx, grpc_recv_us) ==
    LET whirlpool == logs_utils_read("pubkey", data, 0)
        a_to_b == logs_utils_read("bool", data, 32)
        pre_sqrt_price == logs_utils_read("u128", data, 33)
        post_sqrt_price == logs_utils_read("u128", data, 49)
        input_amount == logs_utils_read("u64", data, 73)
        output_amount == logs_utils_read("u64", data, 65)
        input_transfer_fee == logs_utils_read("u64", data, 81)
        output_transfer_fee == logs_utils_read("u64", data, 89)
        lp_fee == logs_utils_read("u64", data, 97)
        protocol_fee == logs_utils_read("u64", data, 105)
    IN  IF ~AllSome(<<whirlpool, a_to_b, pre_sqrt_price, post_sqrt_price,
                          input_amount, output_amount, input_transfer_fee,
                          output_transfer_fee, lp_fee, protocol_fee>>)
        THEN NoEvent
        ELSE [type |-> "OrcaWhirlpoolSwap",
              metadata |-> logs_create_metadata_simple(ctx, whirlpool.v, grpc_recv_us),
              whirlpool |-> whirlpool.v,
              a_to_b |-> a_to_b.v,
              pre_sqrt_price |-> pre_sqrt_price.v,
              post_sqrt_price |-> post_sqrt_price.v,
              input_amount |-> input_amount.v,
              output_amount |-> output_amount.v,
              input_transfer_fee |-> input_transfer_fee.v,
              output_transfer_fee |-> output_transfer_fee.v,
              lp_fee |-> lp_fee.v,
              protocol_fee |-> protocol_fee.v]

orca_whirlpool_parse_traded_event(data, ctx, grpc_recv_us) ==
    LET whirlpool == logs_utils_read("pubkey", data, 0)
        a_to_b == logs_utils_read("bool", data, 32)
        pre_sqrt_price == logs_utils_read("u128", data, 33)
        post_sqrt_price == logs_utils_read("u128", data, 49)
        input_amount == logs_utils_read("u64", data, 65)
        output_amount == logs_utils_read("u64", data, 73)
        input_transfer_fee == logs_utils_read("u64", data, 81)
        output_transfer_fee == logs_utils_read("u64", data, 89)
        lp_fee == logs_utils_read("u64", data, 97)
        protocol_fee == logs_utils_read("u64", data, 105)
    IN  IF ~AllSome(<<whirlpool, a_to_b, pre_sqrt_price, post_sqrt_price,
                          input_amount, output_amount, input_transfer_fee,
                          output_transfer_fee, lp_fee, protocol_fee>>)
        THEN NoEvent
        ELSE [type |-> "OrcaWhirlpoolSwap",
              metadata |-> logs_create_metadata_simple(ctx, whirlpool.v, grpc_recv_us),
              whirlpool |-> whirlpool.v,
              a_to_b |-> a_to_b.v,
              pre_sqrt_price |-> pre_sqrt_price.v,
              post_sqrt_price |-> post_sqrt_price.v,
              input_amount |-> input_amount.v,
              output_amount |-> output_amount.v,
              input_transfer_fee |-> input_transfer_fee.v,
              output_transfer_fee |-> output_transfer_fee.v,
              lp_fee |-> lp_fee.v,
              protocol_fee |-> protocol_fee.v]

\* parse_log hands the line to parse_structured_log, and nothing else does
orca_whirlpool_parse_log(log, ctx, grpc_recv_us) ==
    LET parse_traded_event(data) == orca_whirlpool_parse_traded_event(data, ctx, grpc_recv_us)
        parse_liquidity_increased_event(data) ==
            LET whirlpool == logs_utils_read("pubkey", data, 0)
                position == logs_utils_read("pubkey", data, 32)
                tick_lower_index == logs_utils_read("i32", data, 64)
                tick_upper_index == logs_utils_read("i32", data, 68)
                liquidity == logs_utils_read("u128", data, 72)
                token_a_amount == logs_utils_read("u64", data, 88)
                token_b_amount == logs_utils_read("u64", data, 96)
                token_a_transfer_fee == logs_utils_read("u64", data, 104)
                token_b_transfer_fee == logs_utils_read("u64", data, 112)
            IN  IF ~AllSome(<<whirlpool, position, tick_lower_index,
                                  tick_upper_index, liquidity, token_a_amount,
                                  token_b_amount, token_a_transfer_fee,
                                  token_b_transfer_fee>>)
                THEN NoEvent
                ELSE [type |-> "OrcaWhirlpoolLiquidityIncreased",
                      metadata |-> logs_create_metadata_simple(ctx, whirlpool.v, grpc_recv_us),
                      whirlpool |-> whirlpool.v,
                      position |-> position.v,
                      tick_lower_index |-> tick_lower_index.v,
                      tick_upper_index |-> tick_upper_index.v,
                      liquidity |-> liquidity.v,
                      token_a_amount |-> token_a_amount.v,
                      token_b_amount |-> token_b_amount.v,
                      token_a_transfer_fee |-> token_a_transfer_fee.v,
                      token_b_transfer_fee |-> token_b_transfer_fee.v]
        parse_liquidity_decreased_event(data) ==
            LET whirlpool == logs_utils_read("pubkey", data, 0)
                position == logs_utils_read("pubkey", data, 32)
                tick_lower_index == logs_utils_read("i32", data, 64)
                tick_upper_index == logs_utils_read("i32", data, 68)
                liquidity == logs_utils_read("u128", data, 72)
                token_a_amount == logs_utils_read("u64", data, 88)
                token_b_amount == logs_utils_read("u64", data, 96)
                token_a_transfer_fee == logs_utils_read("u64", data, 104)
                token_b_transfer_fee == logs_utils_read("u64", data, 112)
            IN  IF ~AllSome(<<whirlpool, position, tick_lower_index,
                                  tick_upper_index, liquidity, token_a_amount,
                                  token_b_amount, token_a_transfer_fee,
                                  token_b_transfer_fee>>)
                THEN NoEvent
                ELSE [type |-> "OrcaWhirlpoolLiquidityDecreased",
                      metadata |-> logs_create_metadata_simple(ctx, whirlpool.v, grpc_recv_us),
                      whirlpool |-> whirlpool.v,
                      position |-> position.v,
                      tick_lower_index |-> tick_lower_index.v,
                      tick_upper_index |-> tick_upper_index.v,
                      liquidity |-> liquidity.v,
                      token_a_amount |-> token_a_amount.v,
                      token_b_amount |-> token_b_amount.v,
                      token_a_transfer_fee |-> token_a_transfer_fee.v,
                      token_b_transfer_fee |-> token_b_transfer_fee.v]
        parse_pool_initialized_event(data) ==
            LET whirlpool == logs_utils_read("pubkey", data, 0)
                whirlpools_config == logs_utils_read("pubkey", data, 32)
                token_mint_a == logs_utils_read("pubkey", data, 64)
                token_mint_b == logs_utils_read("pubkey", data, 96)
                tick_spacing == logs_utils_read("u16", data, 128)
                token_program_a == logs_utils_read("pubkey", data, 130)
                token_program_b == logs_utils_read("pubkey", data, 162)
                decimals_a == logs_utils_read("u8", data, 194)
                decimals_b == logs_utils_read("u8", data, 195)
                initial_sqrt_price == logs_utils_read("u128", data, 196)
            IN  IF ~AllSome(<<whirlpool, whirlpools_config, token_mint_a,
                                  token_mint_b, tick_spacing, token_program_a,
                                  token_program_b, decimals_a, decimals_b,
                                  initial_sqrt_price>>)
                THEN NoEvent
                ELSE [type |-> "OrcaWhirlpoolPoolInitialized",
                      metadata |-> logs_create_metadata_simple(ctx, whirlpool.v, grpc_recv_us),
                      whirlpool |-> whirlpool.v,
                      whirlpools_config |-> whirlpools_config.v,
                      token_mint_a |-> token_mint_a.v,
                      token_mint_b |-> token_mint_b.v,
                      tick_spacing |-> tick_spacing.v,
                      token_program_a |-> token_program_a.v,
                      token_program_b |-> token_program_b.v,
                      decimals_a |-> decimals_a.v,
                      decimals_b |-> decimals_b.v,
                      initial_sqrt_price |-> initial_sqrt_price.v]
        program_data == extract_program_data(log)
    IN  IF ~program_data.some THEN NoEvent
        ELSE IF Len(program_data.v) < 8 THEN NoEvent
        ELSE LET discriminator == SubSeq(program_data.v, 1, 8)
                 data == SubSeq(program_data.v, 9, Len(program_data.v))
             IN  CASE discriminator = <<225, 202, 73, 175, 147, 43, 160, 150>> ->
                        parse_traded_event(data)
                   [] discriminator = <<30, 7, 144, 181, 102, 254, 155, 161>> ->
                        parse_liquidity_increased_event(data)
                   [] discriminator = <<166, 1, 36, 71, 112, 202, 181, 171>> ->
                        parse_liquidity_decreased_event(data)
                   [] discriminator = <<100, 118, 173, 87, 12, 198, 254, 229>> ->
                        parse_pool_initialized_event(data)
                   [] OTHER -> NoEvent

-----------------------------------------------------------------------------
(* Raydium AMM V4 log decoder: src/src/logs/raydium_amm.rs *)

\* parse_structured_log: the record of the line, by its discriminator
raydium_amm_parse_structured_log(log, ctx, grpc_recv_us) ==
    LET parse_swap_base_in_event(data) ==
            LET amm == logs_utils_read("pubkey", data, 0)
                user == logs_utils_read("pubkey", data, 32)
                amount_in == logs_utils_read("u64", data, 64)
                minimum_amount_out == logs_utils_read("u64", data, 72)
            IN  IF ~AllSome(<<amm, user, amount_in, minimum_amount_out>>)
                THEN NoEvent
                ELSE [type |-> "RaydiumAmmV4Swap",
                      metadata |-> logs_create_metadata_simple(ctx, amm.v, grpc_recv_us),
                      amount_in |-> amount_in.v,
                      minimum_amount_out |-> minimum_amount_out.v,
                      max_amount_in |-> U64(0),
                      amount_out |-> U64(0),
                      token_program |-> ZeroKey,
                      amm |-> amm.v,
                      amm_authority |-> ZeroKey,
                      amm_open_orders |-> ZeroKey,
                      amm_target_orders |-> None,
                      pool_coin_token_account |-> ZeroKey,
                      pool_pc_token_account |-> ZeroKey,
                      serum_program |-> ZeroKey,
                      serum_market |-> ZeroKey,
                      serum_bids |-> ZeroKey,
                      serum_asks |-> ZeroKey,
                      serum_event_queue |-> ZeroKey,
                      serum_coin_vault_account |-> ZeroKey,
                      serum_pc_vault_account |-> ZeroKey,
                      serum_vault_signer |-> ZeroKey,
                      user_source_token_account |-> ZeroKey,
                      user_destination_token_account |-> ZeroKey,
                      user_source_owner |-> user.v]
        parse_swap_base_out_event(data) ==
            LET amm == logs_utils_read("pubkey", data, 0)
                user == logs_utils_read("pubkey", data, 32)
                max_amount_in == logs_utils_read("u64", data, 64)
                amount_out == logs_utils_read("u64", data, 72)
            IN  IF ~AllSome(<<amm, user, max_amount_in, amount_out>>)
                THEN NoEvent
                ELSE [type |-> "RaydiumAmmV4Swap",
                      metadata |-> logs_create_metadata_simple(ctx, amm.v, grpc_recv_us),
                      amount_in |-> U64(0),
                      minimum_amount_out |-> U64(0),
                      max_amount_in |-> max_amount_in.v,
                      amount_out |-> amount_out.v,
                      token_program |-> ZeroKey,
                      amm |-> amm.v,
                      amm_authority |-> ZeroKey,
                      amm_open_orders |-> ZeroKey,
                      amm_target_orders |-> None,
                      pool_coin_token_account |-> ZeroKey,
                      pool_pc_token_account |-> ZeroKey,
                      serum_program |-> ZeroKey,
                      serum_market |-> ZeroKey,
                      serum_bids |-> ZeroKey,
                      serum_asks |-> ZeroKey,
                      serum_event_queue |-> ZeroKey,
                      serum_coin_vault_account |-> ZeroKey,
                      serum_pc_vault_account |-> ZeroKey,
                      serum_vault_signer |-> ZeroKey,
                      user_source_token_account |-> ZeroKey,
                      user_destination_token_account |-> ZeroKey,
                      user_source_owner |-> user.v]
        parse_deposit_event(data) ==
            LET amm == logs_utils_read("pubkey", data, 0)
                user == logs_utils_read("pubkey", data, 32)
                max_coin_amount == logs_utils_read("u64", data, 64)
                max_pc_amount == logs_utils_read("u64", data, 72)
                base_side == logs_utils_read("u64", data, 80)
            IN  IF ~AllSome(<<amm, user, max_coin_amount, max_pc_amount,
                                  base_side>>)
                THEN NoEvent
                ELSE [type |-> "RaydiumAmmV4Deposit",
                      metadata |-> logs_create_metadata_simple(ctx, amm.v, grpc_recv_us),
                      max_coin_amount |-> max_coin_amount.v,
                      max_pc_amount |-> max_pc_amount.v,
                      base_side |-> base_side.v,
                      token_program |-> ZeroKey,
                      amm |-> amm.v,
                      amm_authority |-> ZeroKey,
                      amm_open_orders |-> ZeroKey,
                      amm_target_orders |-> ZeroKey,
                      lp_mint_address |-> ZeroKey,
                      pool_coin_token_account |-> ZeroKey,
                      pool_pc_token_account |-> ZeroKey,
                      serum_market |-> ZeroKey,
                      user_coin_token_account |-> ZeroKey,
                      user_pc_token_account |-> ZeroKey,
                      user_lp_token_account |-> ZeroKey,
                      user_owner |-> user.v,
                      serum_event_queue |-> ZeroKey]
        parse_withdraw_event(data) ==
            LET amm == logs_utils_read("pubkey", data, 0)
                user == logs_utils_read("pubkey", data, 32)
                amount == logs_utils_read("u64", data, 64)
            IN  IF ~AllSome(<<amm, user, amount>>)
                THEN NoEvent
                ELSE [type |-> "RaydiumAmmV4Withdraw",
                      metadata |-> logs_create_metadata_simple(ctx, amm.v, grpc_recv_us),
                      amount |-> amount.v,
                      token_program |-> ZeroKey,
                      amm |-> amm.v,
                      amm_authority |-> ZeroKey,
                      amm_open_orders |-> ZeroKey,
                      amm_target_orders |-> ZeroKey,
                      lp_mint_address |-> ZeroKey,
                      pool_coin_token_account |-> ZeroKey,
                      pool_pc_token_account |-> ZeroKey,
                      pool_withdraw_queue |-> ZeroKey,
                      pool_temp_lp_token_account |-> ZeroKey,
                      serum_program |-> ZeroKey,
                      serum_market |-> ZeroKey,
                      serum_coin_vault_account |-> ZeroKey,
                      serum_pc_vault_account |-> ZeroKey,
                      serum_vault_signer |-> ZeroKey,
                      user_lp_token_account |-> ZeroKey,
                      user_coin_token_account |-> ZeroKey,
                      user_pc_token_account |-> ZeroKey,
                      user_owner |-> user.v,
                      serum_event_queue |-> ZeroKey,
                      serum_bids |-> ZeroKey,
                      serum_asks |-> ZeroKey]
        parse_initialize2_event(data) ==
            LET amm == logs_utils_read("pubkey", data, 0)
                user == logs_utils_read("pubkey", data, 32)
                nonce == IF 64 < Len(data) THEN Some(data[64 + 1]) ELSE None
                open_time == logs_utils_read("u64", data, 65)
                init_pc_amount == logs_utils_read("u64", data, 73)
                init_coin_amount == logs_utils_read("u64", data, 81)
            IN  IF ~AllSome(<<amm, user, nonce, open_time, init_pc_amount,
                                  init_coin_amount>>)
                THEN NoEvent
                ELSE [type |-> "RaydiumAmmV4Initialize2",
                      metadata |-> logs_create_metadata_simple(ctx, amm.v, grpc_recv_us),
                      nonce |-> nonce.v,
                      open_time |-> open_time.v,
                      init_pc_amount |-> init_pc_amount.v,
                      init_coin_amount |-> init_coin_amount.v,
                      token_program |-> ZeroKey,
                      spl_associated_token_account |-> ZeroKey,
                      system_program |-> ZeroKey,
                      rent |-> ZeroKey,
                      amm |-> amm.v,
                      amm_authority |-> ZeroKey,
                      amm_open_orders |-> ZeroKey,
                      lp_mint |-> ZeroKey,
                      coin_mint |-> ZeroKey,
                      pc_mint |-> ZeroKey,
                      pool_coin_token_account |-> ZeroKey,
                      pool_pc_token_account |-> ZeroKey,
                      pool_withdraw_queue |-> ZeroKey,
                      amm_target_orders |-> ZeroKey,
                      pool_temp_lp |-> ZeroKey,
                      serum_program |-> ZeroKey,
                      serum_market |-> ZeroKey,
                      user_wallet |-> user.v,
                      user_token_coin |-> ZeroKey,
                      user_token_pc |-> ZeroKey,
                      user_lp_token_account |-> ZeroKey]
        parse_withdraw_pnl_event(data) ==
            LET amm == logs_utils_read("pubkey", data, 0)
                pnl_owner == logs_utils_read("pubkey", data, 32)
            IN  IF ~AllSome(<<amm, pnl_owner>>)
                THEN NoEvent
                ELSE [type |-> "RaydiumAmmV4WithdrawPnl",
                      metadata |-> logs_create_metadata_simple(ctx, amm.v, grpc_recv_us),
                      token_program |-> ZeroKey,
                      amm |-> amm.v,
                      amm_config |-> ZeroKey,
                      amm_authority |-> ZeroKey,
                      amm_open_orders |-> ZeroKey,
                      pool_coin_token_account |-> ZeroKey,
                      pool_pc_token_account |-> ZeroKey,
                      coin_pnl_token_account |-> ZeroKey,
                      pc_pnl_token_account |-> ZeroKey,
                      pnl_owner |-> pnl_owner.v,
                      amm_target_orders |-> ZeroKey,
                      serum_program |-> ZeroKey,
                      serum_market |-> ZeroKey,
                      serum_event_queue |-> ZeroKey,
                      serum_coin_vault_account |-> ZeroKey,
                      serum_pc_vault_account |-> ZeroKey,
                      serum_vault_signer |-> ZeroKey]
        program_data == extract_program_data(log)
    IN  IF ~program_data.some THEN NoEvent
        ELSE IF Len(program_data.v) < 8 THEN NoEvent
        ELSE LET discriminator == SubSeq(program_data.v, 1, 8)
                 data == SubSeq(program_data.v, 9, Len(program_data.v))
             IN  CASE discriminator = <<0, 0, 0, 0, 0, 0, 0, 9>> ->
                        parse_swap_base_in_event(data)
                   [] discriminator = <<0, 0, 0, 0, 0, 0, 0, 11>> ->
                        parse_swap_base_out_event(data)
                   [] discriminator = <<0, 0, 0, 0, 0, 0, 0, 3>> ->
                        parse_deposit_event(data)
                   [] discriminator = <<0, 0, 0, 0, 0, 0, 0, 4>> ->
                        parse_withdraw_event(data)
                   [] discriminator = <<0, 0, 0, 0, 0, 0, 0, 1>> ->
                        parse_initialize2_event(data)
                   [] discriminator = <<0, 0, 0, 0, 0, 0, 0, 7>> ->
                        parse_withdraw_pnl_event(data)
                   [] OTHER -> NoEvent

\* parse_log trying parse_text_log on the lines parse_structured_log gives
\* no event for
raydium_amm_parse_log_or_text(log, ctx, grpc_recv_us) ==
    LET event == raydium_amm_parse_structured_log(log, ctx, grpc_recv_us)
        contains(word) == find(log, word).some
    IN  IF event # NoEvent THEN event
        ELSE IF \/ contains(<<"s", "w", "a", "p">>)
                \/ contains(<<"d", "e", "p", "o", "s", "i", "t">>)
                \/ contains(<<"w", "i", "t", "h", "d", "r", "a", "w">>)
        THEN [type |-> "RaydiumAmmV4Swap",
              metadata |-> logs_create_metadata_default(ctx)]
        ELSE NoEvent

\* parse_log hands the line to parse_structured_log, and nothing else does
raydium_amm_parse_log(log, ctx, grpc_recv_us) ==
    raydium_amm_parse_structured_log(log, ctx, grpc_recv_us)

-----------------------------------------------------------------------------
(* Meteora DLMM log decoder: src/src/logs/meteora_dlmm.rs *)

\* parse_swap_event reading host_fee from a record filled up with zeros
meteora_dlmm_parse_swap_event_lenient(data, ctx, grpc_recv_us) ==
    LET pool == logs_utils_read("pubkey", data, 0)
        from == logs_utils_read("pubkey", data, 32)
        start_bin_id == logs_utils_read("u32", data, 64)
        end_bin_id == logs_utils_read("u32", data, 68)
        amount_in == logs_utils_read("u64", data, 72)
        amount_out == logs_utils_read("u64", data, 80)
        swap_for_y == logs_utils_read("bool", data, 88)
        fee == logs_utils_read("u64", data, 89)
        protocol_fee == logs_utils_read("u64", data, 97)
        fee_bps == logs_utils_read("u128", data, 105)
        host_fee == logs_utils_read("u64", data \o U64(0) \o U64(0), 121)
    IN  IF ~AllSome(<<pool, from, start_bin_id, end_bin_id, amount_in,
                          amount_out, swap_for_y, fee, protocol_fee, fee_bps,
                          host_fee>>)
        THEN NoEvent
        ELSE [type |-> "MeteoraDlmmSwap",
              metadata |-> logs_create_metadata_simple(ctx, pool.v, grpc_recv_us),
              pool |-> pool.v,
              from |-> from.v,
              start_bin_id |-> as_i32(start_bin_id.v),
              end_bin_id |-> as_i32(end_bin_id.v),
              amount_in |-> amount_in.v,
              amount_out |-> amount_out.v,
              swap_for_y |-> swap_for_y.v,
              fee |-> fee.v,
              protocol_fee |-> protocol_fee.v,
              fee_bps |-> fee_bps.v,
              host_fee |-> host_fee.v]

meteora_dlmm_parse_swap_event(data, ctx, grpc_recv_us) ==
    LET pool == logs_utils_read("pubkey", data, 0)
        from == logs_utils_read("pubkey", data, 32)
        start_bin_id == logs_utils_read("u32", data, 64)
        end_bin_id == logs_utils_read("u32", data, 68)
        amount_in == logs_utils_read("u64", data, 72)
        amount_out == logs_utils_read("u64", data, 80)
        swap_for_y == logs_utils_read("bool", data, 88)
        fee == logs_utils_read("u64", data, 89)
        protocol_fee == logs_utils_read("u64", data, 97)
        fee_bps == logs_utils_read("u128", data, 105)
        host_fee == logs_utils_read("u64", data, 121)
    IN  IF ~AllSome(<<pool, from, start_bin_id, end_bin_id, amount_in,
                          amount_out, swap_for_y, fee, protocol_fee, fee_bps,
                          host_fee>>)
        THEN NoEvent
        ELSE [type |-> "MeteoraDlmmSwap",
              metadata |-> logs_create_metadata_simple(ctx, pool.v, grpc_recv_us),
              pool |-> pool.v,
              from |-> from.v,
              start_bin_id |-> as_i32(start_bin_id.v),
              end_bin_id |-> as_i32(end_bin_id.v),
              amount_in |-> amount_in.v,
              amount_out |-> amount_out.v,
              swap_for_y |-> swap_for_y.v,
              fee |-> fee.v,
              protocol_fee |-> protocol_fee.v,
              fee_bps |-> fee_bps.v,
              host_fee |-> host_fee.v]

\* parse_log hands the line to parse_structured_log, and nothing else does
meteora_dlmm_parse_log(log, ctx, grpc_recv_us) ==
    LET parse_swap_event(data) == meteora_dlmm_parse_swap_event(data, ctx, grpc_recv_us)
        parse_add_liquidity_event(data) ==
            LET pool == logs_utils_read("pubkey", data, 0)
                from == logs_utils_read("pubkey", data, 32)
                position == logs_utils_read("pubkey", data, 64)
                amount_0 == logs_utils_read("u64", data, 96)
                amount_1 == logs_utils_read("u64", data, 104)
                active_bin_id == logs_utils_read("u32", data, 112)
            IN  IF ~AllSome(<<pool, from, position, amount_0, amount_1,
                                  active_bin_id>>)
                THEN NoEvent
                ELSE [type |-> "MeteoraDlmmAddLiquidity",
                      metadata |-> logs_create_metadata_simple(ctx, pool.v, grpc_recv_us),
                      pool |-> pool.v,
                      from |-> from.v,
                      position |-> position.v,
                      amounts |-> <<amount_0.v, amount_1.v>>,
                      active_bin_id |-> as_i32(active_bin_id.v)]
        parse_remove_liquidity_event(data) ==
            LET pool == logs_utils_read("pubkey", data, 0)
                from == logs_utils_read("pubkey", data, 32)
                position == logs_utils_read("pubkey", data, 64)
                amount_0 == logs_utils_read("u64", data, 96)
                amount_1 == logs_utils_read("u64", data, 104)
                active_bin_id == logs_utils_read("u32", data, 112)
            IN  IF ~AllSome(<<pool, from, position, amount_0, amount_1,
                                  active_bin_id>>)
                THEN NoEvent
                ELSE [type |-> "MeteoraDlmmRemoveLiquidity",
                      metadata |-> logs_create_metadata_simple(ctx, pool.v, grpc_recv_us),
                      pool |-> pool.v,
                      from |-> from.v,
                      position |-> position.v,
                      amounts |-> <<amount_0.v, amount_1.v>>,
                      active_bin_id |-> as_i32(active_bin_id.v)]
        parse_initialize_pool_event(data) ==
            LET pool == logs_utils_read("pubkey", data, 0)
                creator == logs_utils_read("pubkey", data, 32)
                active_bin_id == logs_utils_read("u32", data, 64)
                bin_step == logs_utils_read("u16", data, 68)
            IN  IF ~AllSome(<<pool, creator, active_bin_id, bin_step>>)
                THEN NoEvent
                ELSE [type |-> "MeteoraDlmmInitializePool",
                      metadata |-> logs_create_metadata_simple(ctx, pool.v, grpc_recv_us),
                      pool |-> pool.v,
                      creator |-> creator.v,
                      active_bin_id |-> as_i32(active_bin_id.v),
                      bin_step |-> bin_step.v]
        parse_create_position_event(data) ==
            LET pool == logs_utils_read("pubkey", data, 0)
                position == logs_utils_read("pubkey", data, 32)
                owner == logs_utils_read("pubkey", data, 64)
                lower_bin_id == logs_utils_read("u32", data, 96)
                width == logs_utils_read("u32", data, 100)
            IN  IF ~AllSome(<<pool, position, owner, lower_bin_id, width>>)
                THEN NoEvent
                ELSE [type |-> "MeteoraDlmmCreatePosition",
                      metadata |-> logs_create_metadata_simple(ctx, pool.v, grpc_recv_us),
                      pool |-> pool.v,
                      position |-> position.v,
                      owner |-> owner.v,
                      lower_bin_id |-> as_i32(lower_bin_id.v),
                      width |-> width.v]
        parse_close_position_event(data) ==
            LET pool == logs_utils_read("pubkey", data, 0)
                position == logs_utils_read("pubkey", data, 32)
                owner == logs_utils_read("pubkey", data, 64)
            IN  IF ~AllSome(<<pool, position, owner>>)
                THEN NoEvent
                ELSE [type |-> "MeteoraDlmmClosePosition",
                      metadata |-> logs_create_metadata_simple(ctx, pool.v, grpc_recv_us),
                      pool |-> pool.v,
                      position |-> position.v,
                      owner |-> owner.v]
        parse_claim_fee_event(data) ==
            LET pool == logs_utils_read("pubkey", data, 0)
                position == logs_utils_read("pubkey", data, 32)
                owner == logs_utils_read("pubkey", data, 64)
                fee_x == logs_utils_read("u64", data, 96)
                fee_y == logs_utils_read("u64", data, 104)
            IN  IF ~AllSome(<<pool, position, owner, fee_x, fee_y>>)
                THEN NoEvent
                ELSE [type |-> "MeteoraDlmmClaimFee",
                      metadata |-> logs_create_metadata_simple(ctx, pool.v, grpc_recv_us),
                      pool |-> pool.v,
                      position |-> position.v,
                      owner |-> owner.v,
                      fee_x |-> fee_x.v,
                      fee_y |-> fee_y.v]
        program_data == extract_program_data(log)
    IN  IF ~program_data.some THEN NoEvent
        ELSE IF Len(program_data.v) < 8 THEN NoEvent
        ELSE LET discriminator == SubSeq(program_data.v, 1, 8)
                 data == SubSeq(program_data.v, 9, Len(program_data.v))
             IN  CASE discriminator = <<143, 190, 90, 218, 196, 30, 51, 222>> ->
                        parse_swap_event(data)
                   [] discriminator = <<181, 157, 89, 67, 143, 182, 52, 72>> ->
                        parse_add_liquidity_event(data)
                   [] discriminator = <<80, 85, 209, 72, 24, 206, 35, 178>> ->
                        parse_remove_liquidity_event(data)
                   [] discriminator = <<95, 180, 10, 172, 84, 174, 232, 40>> ->
                        parse_initialize_pool_event(data)
                   [] discriminator = <<123, 233, 11, 43, 146, 180, 97, 119>> ->
                        parse_create_position_event(data)
                   [] discriminator = <<94, 168, 102, 45, 59, 122, 137, 54>> ->
                        parse_close_position_event(data)
                   [] discriminator = <<152, 70, 208, 111, 104, 91, 44, 1>> ->
                        parse_claim_fee_event(data)
                   [] OTHER -> NoEvent

-----------------------------------------------------------------------------
(* Meteora Pools log decoder: src/src/logs/meteora_amm.rs *)

\* parse_log hands the line to parse_structured_log, and nothing else does
meteora_amm_parse_log(log, ctx, grpc_recv_us) ==
    LET parse_swap_event(data) ==
            LET in_amount == logs_utils_read("u64", data, 0)
                out_amount == logs_utils_read("u64", data, 8)
                trade_fee == logs_utils_read("u64", data, 16)
                admin_fee == logs_utils_read("u64", data, 24)
                host_fee == logs_utils_read("u64", data, 32)
            IN  IF ~AllSome(<<in_amount, out_amount, trade_fee, admin_fee,
                                  host_fee>>)
                THEN NoEvent
                ELSE [type |-> "MeteoraPoolsSwap",
                      metadata |-> logs_create_metadata_default(ctx),
                      in_amount |-> in_amount.v,
                      out_amount |-> out_amount.v,
                      trade_fee |-> trade_fee.v,
                      admin_fee |-> admin_fee.v,
                      host_fee |-> host_fee.v]
        parse_add_liquidity_event(data) ==
            LET lp_mint_amount == logs_utils_read("u64", data, 0)
                token_a_amount == logs_utils_read("u64", data, 8)
                token_b_amount == logs_utils_read("u64", data, 16)
            IN  IF ~AllSome(<<lp_mint_amount, token_a_amount, token_b_amount>>)
                THEN NoEvent
                ELSE [type |-> "MeteoraPoolsAddLiquidity",
                      metadata |-> logs_create_metadata_default(ctx),
                      lp_mint_amount |-> lp_mint_amount.v,
                      token_a_amount |-> token_a_amount.v,
                      token_b_amount |-> token_b_amount.v]
        parse_remove_liquidity_event(data) ==
            LET lp_unmint_amount == logs_utils_read("u64", data, 0)
                token_a_out_amount == logs_utils_read("u64", data, 8)
                token_b_out_amount == logs_utils_read("u64", data, 16)
            IN  IF ~AllSome(<<lp_unmint_amount, token_a_out_amount,
                                  token_b_out_amount>>)
                THEN NoEvent
                ELSE [type |-> "MeteoraPoolsRemoveLiquidity",
                      metadata |-> logs_create_metadata_default(ctx),
                      lp_unmint_amount |-> lp_unmint_amount.v,
                      token_a_out_amount |-> token_a_out_amount.v,
                      token_b_out_amount |-> token_b_out_amount.v]
        parse_bootstrap_liquidity_event(data) ==
            LET lp_mint_amount == logs_utils_read("u64", data, 0)
                token_a_amount == logs_utils_read("u64", data, 8)
                token_b_amount == logs_utils_read("u64", data, 16)
                pool == logs_utils_read("pubkey", data, 24)
            IN  IF ~AllSome(<<lp_mint_amount, token_a_amount, token_b_amount,
                                  pool>>)
                THEN NoEvent
                ELSE [type |-> "MeteoraPoolsBootstrapLiquidity",
                      metadata |-> logs_create_metadata_simple(ctx, pool.v, grpc_recv_us),
                      lp_mint_amount |-> lp_mint_amount.v,
                      token_a_amount |-> token_a_amount.v,
                      token_b_amount |-> token_b_amount.v,
                      pool |-> pool.v]
        parse_pool_created_event(data) ==
            LET lp_mint == logs_utils_read("pubkey", data, 0)
                token_a_mint == logs_utils_read("pubkey", data, 32)
                token_b_mint == logs_utils_read("pubkey", data, 64)
                pool_type == logs_utils_read("u8", data, 96)
                pool == logs_utils_read("pubkey", data, 97)
            IN  IF ~AllSome(<<lp_mint, token_a_mint, token_b_mint, pool_type,
                                  pool>>)
                THEN NoEvent
                ELSE [type |-> "MeteoraPoolsPoolCreated",
                      metadata |-> logs_create_metadata_simple(ctx, pool.v, grpc_recv_us),
                      lp_mint |-> lp_mint.v,
                      token_a_mint |-> token_a_mint.v,
                      token_b_mint |-> token_b_mint.v,
                      pool_type |-> pool_type.v,
                      pool |-> pool.v]
        parse_set_pool_fees_event(data) ==
            LET trade_fee_numerator == logs_utils_read("u64", data, 0)
                trade_fee_denominator == logs_utils_read("u64", data, 8)
                owner_trade_fee_numerator == logs_utils_read("u64", data, 16)
                owner_trade_fee_denominator == logs_utils_read("u64", data, 24)
                pool == logs_utils_read("pubkey", data, 32)
            IN  IF ~AllSome(<<trade_fee_numerator, trade_fee_denominator,
                                  owner_trade_fee_numerator,
                                  owner_trade_fee_denominator, pool>>)
                THEN NoEvent
                ELSE [type |-> "MeteoraPoolsSetPoolFees",
                      metadata |-> logs_create_metadata_simple(ctx, pool.v, grpc_recv_us),
                      trade_fee_numerator |-> trade_fee_numerator.v,
                      trade_fee_denominator |-> trade_fee_denominator.v,
                      owner_trade_fee_numerator |-> owner_trade_fee_numerator.v,
                      owner_trade_fee_denominator |-> owner_trade_fee_denominator.v,
                      pool |-> pool.v]
        program_data == extract_program_data(log)
    IN  IF ~program_data.some THEN NoEvent
        ELSE IF Len(program_data.v) < 8 THEN NoEvent
        ELSE LET discriminator == SubSeq(program_data.v, 1, 8)
                 data == SubSeq(program_data.v, 9, Len(program_data.v))
             IN  CASE discriminator = <<81, 108, 227, 190, 205, 208, 10, 196>> ->
                        parse_swap_event(data)
                   [] discriminator = <<31, 94, 125, 90, 227, 52, 61, 186>> ->
                        parse_add_liquidity_event(data)
                   [] discriminator = <<116, 244, 97, 232, 103, 31, 152, 58>> ->
                        parse_remove_liquidity_event(data)
                   [] discriminator = <<121, 127, 38, 136, 92, 55, 14, 247>> ->
                        parse_bootstrap_liquidity_event(data)
                   [] discriminator = <<202, 44, 41, 88, 104, 220, 157, 82>> ->
                        parse_pool_created_event(data)
                   [] discriminator = <<245, 26, 198, 164, 88, 18, 75, 9>> ->
                        parse_set_pool_fees_event(data)
                   [] OTHER -> NoEvent

-----------------------------------------------------------------------------
(* Bonk (Raydium Launchpad) log decoder: src/src/logs/raydium_launchpad.rs *)

\* parse_log hands the line to parse_structured_log, and nothing else does
raydium_launchpad_parse_log(log, ctx, grpc_recv_us) ==
    LET parse_trade_event(data) ==
            LET pool_state == logs_utils_read("pubkey", data, 0)
                user == logs_utils_read("pubkey", data, 32)
                amount_in == logs_utils_read("u64", data, 64)
                amount_out == logs_utils_read("u64", data, 72)
                is_buy == logs_utils_read("bool", data, 80)
                exact_in == logs_utils_read("bool", data, 81)
            IN  IF ~AllSome(<<pool_state, user, amount_in, amount_out, is_buy,
                                  exact_in>>)
                THEN NoEvent
                ELSE [type |-> "BonkTrade",
                      metadata |-> logs_create_metadata_simple(ctx, pool_state.v, grpc_recv_us),
                      pool_state |-> pool_state.v,
                      user |-> user.v,
                      amount_in |-> amount_in.v,
                      amount_out |-> amount_out.v,
                      is_buy |-> is_buy.v,
                      trade_direction |-> IF is_buy.v THEN "Buy" ELSE "Sell",
                      exact_in |-> exact_in.v]
        parse_pool_create_event(data) ==
            LET pool_state == logs_utils_read("pubkey", data, 0)
                _token_a_mint == logs_utils_read("pubkey", data, 32)
                _token_b_mint == logs_utils_read("pubkey", data, 64)
                creator == logs_utils_read("pubkey", data, 96)
                _initial_liquidity_a == logs_utils_read("u64", data, 128)
                _initial_liquidity_b == logs_utils_read("u64", data, 136)
            IN  IF ~AllSome(<<pool_state, _token_a_mint, _token_b_mint,
                                  creator, _initial_liquidity_a,
                                  _initial_liquidity_b>>)
                THEN NoEvent
                ELSE [type |-> "BonkPoolCreate",
                      metadata |-> logs_create_metadata_simple(ctx, pool_state.v, grpc_recv_us),
                      base_mint_param |-> [symbol |-> "BONK", name |-> "Bonk Pool",
                                         uri |-> "https://bonk.com", decimals |-> 5],
                      pool_state |-> pool_state.v,
                      creator |-> creator.v]
        parse_migrate_amm_event(data) ==
            LET old_pool == logs_utils_read("pubkey", data, 0)
                new_pool == logs_utils_read("pubkey", data, 32)
                user == logs_utils_read("pubkey", data, 64)
                liquidity_amount == logs_utils_read("u64", data, 96)
            IN  IF ~AllSome(<<old_pool, new_pool, user, liquidity_amount>>)
                THEN NoEvent
                ELSE [type |-> "BonkMigrateAmm",
                      metadata |-> logs_create_metadata_simple(ctx, old_pool.v, grpc_recv_us),
                      old_pool |-> old_pool.v,
                      new_pool |-> new_pool.v,
                      user |-> user.v,
                      liquidity_amount |-> liquidity_amount.v]
        program_data == extract_program_data(log)
    IN  IF ~program_data.some THEN NoEvent
        ELSE IF Len(program_data.v) < 8 THEN NoEvent
        ELSE LET discriminator == SubSeq(program_data.v, 1, 8)
                 data == SubSeq(program_data.v, 9, Len(program_data.v))
             IN  CASE discriminator = <<2, 3, 4, 5, 6, 7, 8, 9>> ->
                        parse_trade_event(data)
                   [] discriminator = <<1, 2, 3, 4, 5, 6, 7, 8>> ->
                        parse_pool_create_event(data)
                   [] discriminator = <<3, 4, 5, 6, 7, 8, 9, 10>> ->
                        parse_migrate_amm_event(data)
                   [] OTHER -> NoEvent

-----------------------------------------------------------------------------
(* The accounts the caller hands to the account decoders *)

Owners ==
    {PUMPSWAP_PROGRAM_ID, SPL_TOKEN_PROGRAM_ID, SYSTEM_PROGRAM_ID, "OtherProgram"}

\* lengths around every length test of the account decoders
DataLens ==
    {0, 7, 8, 9, 44, 45, 71, 72, 73, 79, 80, 81, 82, 83, 90, 99, 100, 101,
     120, 165, MaxDataLen}

\* an SPL-shaped buffer: supply 1_000_000 at 36, decimals 6 at 44, amount 500
\* at 64, and the marks of an initialized account (is_initialized of a Mint
\* at 45, the state of a token Account at 108)
SplData(n) ==
    Overlay(Overlay(Overlay(Overlay(Overlay([i \in 1..n |-> 0],
                            SUPPLY_OFFSET, to_le_bytes(1000000, 8)),
                    DECIMALS_OFFSET, <<6>>),
            AMOUNT_OFFSET, to_le_bytes(500, 8)), 45, <<1>>), 108, <<1>>)

DataBodies(n) == {Ramp(17, n), SplData(n)}

DataPrefixes ==
    {<<>>, NONCE_DISCRIMINATOR, GLOBAL_CONFIG_DISCRIMINATOR, POOL_DISCRIMINATOR}

AccountDatas ==
    {Overlay(body, 0, prefix) :
        <<body, prefix>> \in (UNION {DataBodies(n) : n \in DataLens}) \X DataPrefixes}

AccountMetas ==
    {[pubkey |-> 11, executable |-> FALSE, lamports |-> 1, rent_epoch |-> 2],
     [pubkey |-> 12, executable |-> TRUE, lamports |-> 0, rent_epoch |-> 9]}

AccountData(meta, owner, data) ==
    [pubkey |-> meta.pubkey, executable |-> meta.executable,
     lamports |-> meta.lamports, owner |-> owner,
     rent_epoch |-> meta.rent_epoch, data |-> data]

\* the EventMetadata the caller builds for an account fact
CallerMetadatas ==
    {[signature |-> "sigA", slot |-> 7, tx_index |-> 3,
      block_time_us |-> 5, grpc_recv_us |-> 9]}

EventTypeFilters == {None, Some("TokenAccount")}

\* the first 8 bytes of nonce account data: Current / Initialized (the magic),
\* Current / Uninitialized, Legacy / Initialized, Legacy / Uninitialized, an
\* unknown version, an unknown state
NoncePrefixes ==
    {NONCE_DISCRIMINATOR, <<1, 0, 0, 0, 0, 0, 0, 0>>, <<0, 0, 0, 0, 1, 0, 0, 0>>,
     <<0, 0, 0, 0, 0, 0, 0, 0>>, <<2, 0, 0, 0, 1, 0, 0, 0>>,
     <<1, 0, 0, 0, 2, 0, 0, 0>>}

NonceDatas ==
    {Overlay(Ramp(17, n), 0, prefix) :
        <<n, prefix>> \in {4, 8, 79, 80, 81, MaxDataLen} \X NoncePrefixes}

-----------------------------------------------------------------------------
(* The state machine: the caller makes one call after the other *)

\* no call is in progress
Idle == [fn |-> "none"]

\* the build without the perf-stats feature has no counters; the build with
\* it starts PARSE_COUNT and PARSE_TIME_NS at AtomicUsize::new(0)
PerfStatsOff == [enabled |-> FALSE]
PerfStatsZero == [enabled |-> TRUE, PARSE_COUNT |-> 0, PARSE_TIME_NS |-> 0]

\* the event carries a grpc_recv_us the decoder read from the clock itself
clock_stamped(c, event) ==
    /\ c.fn = "parse_instruction_unified"
    /\ "metadata" \in DOMAIN event

\* the threads of the process
Threads == 1..MaxThreads

InitBuild(stats) ==
    /\ call = Idle
    /\ result = NoEvent
    /\ clock = 0
    /\ unchecked = {}
    /\ stamped = None
    /\ perf_stats = stats
    /\ WARMED_UP = FALSE
    /\ warmup_pc = [t \in Threads |-> "idle"]
    /\ warmed = {}
    /\ body_runs = 0
    /\ returned = {}
    /\ observed = [t \in Threads |-> None]

\* the default build: the perf-stats feature is off
Init == InitBuild(PerfStatsOff)

\* either build
InitAnyBuild == \E stats \in {PerfStatsOff, PerfStatsZero} : InitBuild(stats)

\* accounts::parse_account_unified(account, metadata, event_type_filter)
ParseAccountUnified ==
    /\ call = Idle
    /\ \E meta \in AccountMetas, owner \in Owners, data \in AccountDatas,
          metadata \in CallerMetadatas, filter \in EventTypeFilters,
          layout_ok \in BOOLEAN :
        LET account == AccountData(meta, owner, data)
        IN  /\ call' = [fn |-> "parse_account_unified", account |-> account,
                        metadata |-> metadata, filter |-> filter,
                        layout_ok |-> layout_ok]
            /\ result' = parse_account_unified(account, metadata, filter, layout_ok)
            /\ UNCHANGED <<clock, unchecked, stamped, perf_stats, warmup_vars>>

\* accounts::parse_token_account(account, metadata)
ParseTokenAccount ==
    /\ call = Idle
    /\ \E meta \in AccountMetas, owner \in Owners, data \in AccountDatas,
          metadata \in CallerMetadatas :
        LET account == AccountData(meta, owner, data)
        IN  /\ call' = [fn |-> "parse_token_account", account |-> account,
                        metadata |-> metadata]
            /\ result' = parse_token_account(account, metadata)
            /\ UNCHANGED <<clock, unchecked, stamped, perf_stats, warmup_vars>>

\* accounts::parse_nonce_account(account, metadata)
ParseNonceAccount ==
    /\ call = Idle
    /\ \E meta \in AccountMetas, owner \in Owners, data \in NonceDatas,
          metadata \in CallerMetadatas :
        LET account == AccountData(meta, owner, data)
        IN  /\ call' = [fn |-> "parse_nonce_account", account |-> account,
                        metadata |-> metadata]
            /\ result' = parse_nonce_account(account, metadata)
            /\ UNCHANGED <<clock, unchecked, stamped, perf_stats, warmup_vars>>

\* the caller takes the returned event; the decoders keep nothing of the call
Return ==
    /\ call # Idle
    /\ call' = Idle
    /\ result' = NoEvent
    /\ unchecked' = {}
    /\ stamped' = IF clock_stamped(call, result)
                  THEN Some(result.metadata.grpc_recv_us)
                  ELSE stamped
    /\ UNCHANGED <<clock, perf_stats, warmup_vars>>

NextAccounts ==
    ParseAccountUnified \/ ParseTokenAccount \/ ParseNonceAccount \/ Return

SpecAccounts == Init /\ [][NextAccounts]_vars

-----------------------------------------------------------------------------
(* The instruction facts the caller hands to parse_instruction_unified *)

InstrPrograms ==
    {PUMPFUN_PROGRAM_ID, RAYDIUM_AMM_V4_PROGRAM_ID, RAYDIUM_CLMM_PROGRAM_ID,
     ORCA_WHIRLPOOL_PROGRAM_ID, RAYDIUM_CPMM_PROGRAM_ID,
     METEORA_DAMM_V2_PROGRAM_ID, METEORA_DLMM_PROGRAM_ID, BONK_PROGRAM_ID,
     PUMPSWAP_PROGRAM_ID, METEORA_POOLS_PROGRAM_ID}

UnknownProgram == "UnknownProgram"

\* the Anchor discriminators of the three V2 instructions of the Whirlpool
\* program that OrcaWhirlpoolInstruction names
ORCA_INCREASE_LIQUIDITY_V2 == <<133, 29, 89, 223, 69, 238, 176, 10>>
ORCA_DECREASE_LIQUIDITY_V2 == <<58, 127, 188, 62, 79, 82, 196, 96>>
ORCA_INITIALIZE_POOL_V2 == <<207, 45, 87, 242, 27, 63, 204, 67>>

\* eight bytes no table holds
UnknownDiscriminator == <<9, 9, 9, 9, 9, 9, 9, 9>>

RaydiumAmmHeads == {<<b>> : b \in 0..12}

RaydiumClmmHeads ==
    {RAYDIUM_CLMM_SWAP, RAYDIUM_CLMM_INCREASE_LIQUIDITY,
     RAYDIUM_CLMM_DECREASE_LIQUIDITY, RAYDIUM_CLMM_CREATE_POOL,
     RAYDIUM_CLMM_OPEN_POSITION, RAYDIUM_CLMM_CLOSE_POSITION}

\* the discriminators of the instructions parse_instruction handles, and one
\* it leaves alone
OrcaHeads ==
    {<<248, 198, 158, 145, 225, 117, 135, 200>>,
     <<43, 4, 237, 11, 26, 201, 30, 98>>,
     <<46, 156, 243, 118, 13, 205, 251, 178>>,
     <<160, 38, 208, 111, 104, 91, 44, 1>>,
     <<17, 43, 80, 74, 168, 202, 6, 113>>,
     <<123, 134, 81, 0, 49, 68, 98, 98>>,
     ORCA_INCREASE_LIQUIDITY_V2, ORCA_DECREASE_LIQUIDITY_V2,
     ORCA_INITIALIZE_POOL_V2}

PumpAmmHeads == {PUMP_AMM_BUY, PUMP_AMM_SELL, PUMP_AMM_CREATE_POOL}

MeteoraDammHeads ==
    {<<228, 50, 246, 85, 203, 66, 134, 37>>,
     <<129, 91, 188, 3, 246, 52, 185, 249>>,
     <<175, 242, 8, 157, 30, 247, 185, 169>>,
     <<87, 46, 88, 98, 175, 96, 34, 91>>,
     <<156, 15, 119, 198, 29, 181, 221, 55>>,
     <<20, 145, 144, 68, 143, 142, 214, 178>>,
     <<27, 60, 21, 213, 138, 170, 187, 147>>,
     <<218, 86, 147, 200, 235, 188, 215, 231>>,
     <<198, 182, 183, 52, 97, 12, 49, 56>>,
     <<104, 233, 237, 122, 199, 191, 121, 85>>}

\* what a transaction of program p may start with: the program's own
\* discriminators, a truncated one, one of another program, an unknown one
HeadsFor(p) ==
    {UnknownDiscriminator, <<248, 198, 158>>} \cup
    (CASE p = RAYDIUM_AMM_V4_PROGRAM_ID -> RaydiumAmmHeads
       [] p = RAYDIUM_CLMM_PROGRAM_ID ->
            RaydiumClmmHeads \cup {<<43, 4, 237, 11, 26, 201, 30, 98>>}
       [] p = ORCA_WHIRLPOOL_PROGRAM_ID ->
            OrcaHeads \cup {RAYDIUM_CLMM_OPEN_POSITION}
       [] p = PUMPSWAP_PROGRAM_ID -> PumpAmmHeads \cup {RAYDIUM_CLMM_SWAP}
       [] p = METEORA_DAMM_V2_PROGRAM_ID ->
            MeteoraDammHeads \cup {RAYDIUM_CLMM_SWAP}
       [] OTHER -> {RAYDIUM_CLMM_SWAP, <<9>>})

\* a payload body of n bytes: two amounts (1_000_000 and 950_000), then a
\* ramp, with the flag bytes the decoders test set to 1 and 0
BodyA(n) ==
    Overlay(Overlay(Overlay(Overlay(Overlay(Ramp(7, n),
                                            0, to_le_bytes(1000000, 8)),
                                    8, to_le_bytes(950000, 8)),
                            24, <<1>>),
                    32, <<1>>),
            33, <<0>>)

\* a ramp with the flag bytes the other way round
BodyB(n) ==
    Overlay(Overlay(Overlay(Ramp(17, n), 24, <<0>>), 32, <<0>>), 33, <<2>>)

\* the public keys of an accounts list of n keys: key at index i is 101 + i
AccountKeys(n) == [i \in 1..n |-> 100 + i]

\* <<body length, accounts length>>: every body length with the longest
\* accounts list and every accounts length with the longest body
InstrShapes ==
    {<<b, MaxAccounts>> : b \in 0..MaxBody} \cup
    {<<MaxBody, a>> : a \in 0..MaxAccounts} \cup
    {<<0, 0>>}

Ctxs ==
    {Ctx("sigA", 7, 3, None), Ctx("sigB", 8, 0, Some(5))}

\* what the decoders that are not modelled byte by byte may decide
OutcomesFor(p) ==
    IF p \in {PUMPFUN_PROGRAM_ID, RAYDIUM_CPMM_PROGRAM_ID,
              METEORA_DLMM_PROGRAM_ID, BONK_PROGRAM_ID,
              METEORA_POOLS_PROGRAM_ID}
    THEN BOOLEAN ELSE {FALSE}

\* instr::parse_instruction_unified(instruction_data, accounts, signature,
\*                                  slot, tx_index, block_time_us, program_id)
ParseInstructionUnified ==
    /\ call = Idle
    /\ \E program_id \in InstrPrograms \cup {UnknownProgram},
          shape \in InstrShapes, ctx \in Ctxs :
       \E head \in HeadsFor(program_id) \cup {<<>>},
          body \in {BodyA(shape[1]), BodyB(shape[1])},
          outcome \in OutcomesFor(program_id) :
        LET instruction_data == IF head = <<>> THEN <<>> ELSE head \o body
            accounts == AccountKeys(shape[2])
        IN  /\ call' = [fn |-> "parse_instruction_unified",
                        instruction_data |-> instruction_data,
                        accounts |-> accounts, ctx |-> ctx,
                        program_id |-> program_id, outcome |-> outcome]
            /\ result' = parse_instruction_unified(instruction_data, accounts,
                                                   ctx, program_id, outcome)
            /\ UNCHANGED <<clock, unchecked, stamped, perf_stats, warmup_vars>>

\* the wall clock (CLOCK_REALTIME) moves between two calls, either way
ClockStep ==
    /\ call = Idle
    /\ \E t \in 0..MaxClock : t # clock /\ clock' = t
    /\ UNCHANGED <<call, result, unchecked, stamped, perf_stats, warmup_vars>>

NextInstr == ParseInstructionUnified \/ ClockStep \/ Return

SpecInstr == Init /\ [][NextInstr]_vars

-----------------------------------------------------------------------------
(* The log lines the caller hands to logs::pump_amm::parse_log *)

\* the last byte any reader of the table touches, plus one
ReadsEnd(table) ==
    CHOOSE e \in {r[1] + r[2] : r \in table} :
        \A r \in table : r[1] + r[2] <= e

\* the records a PumpSwap program logs: the 8 discriminator bytes, the
\* length the variant decoder checks and the reads it performs
LogVariants ==
    {[discriminator |-> <<103, 244, 82, 31, 44, 245, 119, 119>>,
      required_len |-> BUY_REQUIRED_LEN,
      reads |-> parse_buy_event_optimized_reads],
     [discriminator |-> <<62, 47, 55, 10, 165, 3, 220, 42>>,
      required_len |-> SELL_REQUIRED_LEN,
      reads |-> parse_sell_event_optimized_reads],
     [discriminator |-> <<177, 49, 12, 210, 160, 118, 167, 116>>,
      required_len |-> CREATE_POOL_REQUIRED_LEN,
      reads |-> parse_create_pool_event_optimized_reads],
     [discriminator |-> <<120, 248, 61, 83, 31, 142, 107, 144>>,
      required_len |-> ADD_LIQUIDITY_REQUIRED_LEN,
      reads |-> parse_add_liquidity_event_optimized_reads],
     [discriminator |-> <<22, 9, 133, 26, 160, 44, 71, 192>>,
      required_len |-> REMOVE_LIQUIDITY_REQUIRED_LEN,
      reads |-> parse_remove_liquidity_event_optimized_reads],
     [discriminator |-> UnknownDiscriminator,
      required_len |-> 8,
      reads |-> {<<0, 8>>}]}

\* the record lengths tried: none, and the lengths within MaxSlack of the
\* checked length and of the last byte read
RecordLens(variant) ==
    {0} \cup ((variant.required_len - MaxSlack) ..
              (variant.required_len + MaxSlack))
        \cup ((ReadsEnd(variant.reads) - MaxSlack) ..
              (ReadsEnd(variant.reads) + MaxSlack))

\* the counters of the perf-stats build do not depend on the record beyond
\* its first 8 bytes: with them, the bare discriminator and the shortest
\* record the variant decoder accepts are tried
RecordLensOf(stats, variant) ==
    IF stats.enabled THEN {0, variant.required_len} ELSE RecordLens(variant)

\* what start.elapsed().as_nanos() may be
ElapsedNs == {0, 3}

\* the #[cfg(feature = "perf-stats")] block of parse_log
perf_stats_add(stats, elapsed) ==
    [stats EXCEPT !.PARSE_COUNT = @ + 1, !.PARSE_TIME_NS = @ + elapsed]

\* the bytes of a record after its discriminator
LogBody(kind, n) ==
    IF kind = "flagged" THEN Overlay(Ramp(3, n), 352, <<1>>) ELSE Ramp(5, n)

\* how the record reaches the log line
LogShapes == {"plain", "framed", "shortened", "no marker", "bad symbol", "cut"}

LogLine(shape, record) ==
    LET text == base64_encode(record)
    IN  CASE shape = "plain" -> PROGRAM_DATA_MARKER \o text
          [] shape = "framed" ->
                <<"#", "1", " ">> \o PROGRAM_DATA_MARKER \o <<" ">> \o text
                    \o <<" ", "\n">>
          [] shape = "shortened" ->
                PROGRAM_DATA_MARKER \o SubSeq(text, 1, Len(text) - 1)
          [] shape = "no marker" -> <<"P", "r", "o", "g", "r", "a", "m", " ">> \o text
          [] shape = "bad symbol" -> PROGRAM_DATA_MARKER \o <<"!">> \o text
          [] shape = "cut" -> PROGRAM_DATA_MARKER \o base64_encode(SubSeq(record, 1, 7))

\* what an out-of-bounds read may get
OobBytes == {0, 171}

\* logs::pump_amm::parse_log(log, signature, slot, tx_index, block_time_us,
\*                           grpc_recv_us)
ParseLog ==
    /\ call = Idle
    /\ perf_stats.enabled => perf_stats.PARSE_COUNT < MaxParseCount
    /\ \E variant \in LogVariants, kind \in {"flagged", "ramp"},
          shape \in LogShapes, ctx \in Ctxs, oob \in OobBytes :
       \E n \in RecordLensOf(perf_stats, variant) :
        LET record == variant.discriminator \o LogBody(kind, n)
            log == LogLine(shape, record)
            grpc_recv_us == 9
        IN  /\ call' = [fn |-> "pump_amm_parse_log", log |-> log,
                        ctx |-> ctx, grpc_recv_us |-> grpc_recv_us,
                        oob |-> oob, record |-> record]
            /\ result' = pump_amm_parse_log(log, ctx, grpc_recv_us, oob)
            /\ unchecked' = pump_amm_unchecked_reads(log)
            /\ IF perf_stats.enabled /\ pump_amm_parse_log_counted(log)
               THEN \E elapsed \in ElapsedNs :
                        perf_stats' = perf_stats_add(perf_stats, elapsed)
               ELSE UNCHANGED perf_stats
            /\ UNCHANGED <<clock, stamped, warmup_vars>>

\* the lengths of the records handed to the fast filter: short ones, around
\* the 12 and 16 characters extract_discriminator_simd tests, and the whole
\* record of the variant
FastRecordLens(variant) == (0 .. MaxFastLen) \cup {8 + ReadsEnd(variant.reads)}

\* how a record reaches the line handed to the fast filter ("cut" is the
\* record of 7 bytes)
FastShapes == LogShapes \ {"cut"}

\* the record handed to the fast filter: a variant's record, or one under a
\* discriminator the program has not, cut to r bytes
FastRecord(head, variant, kind, r) ==
    SubSeq(head \o LogBody(kind, ReadsEnd(variant.reads)), 1, r)

\* logs::pump_amm::get_event_type_fast(log)
GetEventTypeFast ==
    /\ call = Idle
    /\ \E variant \in LogVariants, kind \in {"flagged", "ramp"},
          shape \in FastShapes :
       \E head \in {variant.discriminator, UnknownDiscriminator},
          r \in FastRecordLens(variant) :
        LET record == FastRecord(head, variant, kind, r)
            log == LogLine(shape, record)
        IN  /\ call' = [fn |-> "get_event_type_fast", log |-> log,
                        record |-> record]
            /\ result' = get_event_type_fast(log)
            /\ UNCHANGED <<clock, unchecked, stamped, perf_stats, warmup_vars>>

\* logs::pump_amm::is_event_type(log, discriminator)
IsEventType ==
    /\ call = Idle
    /\ \E variant \in LogVariants, kind \in {"flagged", "ramp"},
          shape \in FastShapes, discriminator \in {PUMP_LOG_BUY, PUMP_LOG_SELL} :
       \E head \in {variant.discriminator, UnknownDiscriminator},
          r \in FastRecordLens(variant) :
        LET record == FastRecord(head, variant, kind, r)
            log == LogLine(shape, record)
        IN  /\ call' = [fn |-> "is_event_type", log |-> log,
                        record |-> record, discriminator |-> discriminator]
            /\ result' = is_event_type(log, discriminator)
            /\ UNCHANGED <<clock, unchecked, stamped, perf_stats, warmup_vars>>

NextFastFilter == GetEventTypeFast \/ IsEventType \/ Return

SpecFastFilter == Init /\ [][NextFastFilter]_vars

NextPumpLog == ParseLog \/ Return

SpecPumpLog == Init /\ [][NextPumpLog]_vars

-----------------------------------------------------------------------------
(* The byte readers and the basis-point helpers called on their own *)

\* A usize near its top: the values 2^64 - k, for small k, are written -k, so
\* that offset + width wraps to the sum written the same way.
usize_add_overflows(a, b) == a < 0 /\ a + b >= 0

\* a < b for two usize
usize_lt(a, b) == IF (a < 0) = (b < 0) THEN a < b ELSE b < 0

\* the value of the bytes read, by kind
ReaderValue(kind, bytes) ==
    CASE kind \in {"pubkey", "bytes"} -> bytes
      [] kind = "bool" -> bytes[1] # 0
      [] kind = "u8" -> bytes[1]
      [] kind = "u16" -> from_le_bytes(bytes)[1]
      [] kind = "i32" -> as_i32(from_le_bytes(bytes))
      [] OTHER -> from_le_bytes(bytes)

\* the bytes a reader of the kind takes; read_bytes takes `length`
ReaderWidth(kind, length) ==
    CASE kind = "pubkey" -> 32
      [] kind \in {"bool", "u8"} -> 1
      [] kind = "u16" -> 2
      [] kind \in {"u32", "i32"} -> 4
      [] kind = "u64" -> 8
      [] kind = "u128" -> 16
      [] kind = "bytes" -> length

\* data.get(offset..offset + width).map(from_le_bytes): the sum panics when
\* it overflows in a build with overflow checks and wraps otherwise; get
\* gives None for a range that ends before it starts or behind the buffer
slice_get_read(kind, data, offset, width, overflow_checks) ==
    LET end == offset + width
    IN  IF usize_add_overflows(offset, width) /\ overflow_checks THEN Panic
        ELSE IF usize_lt(end, offset) \/ usize_lt(Len(data), end) THEN None
        ELSE Some(ReaderValue(kind, Slice(data, offset, width)))

\* `if data.len() < offset + width { return None }` and then the index
\* data[offset..offset + width], which panics for a range that ends before
\* it starts
len_check_read(kind, data, offset, width, overflow_checks) ==
    LET end == offset + width
    IN  IF usize_add_overflows(offset, width) /\ overflow_checks THEN Panic
        ELSE IF usize_lt(Len(data), end) THEN None
        ELSE IF usize_lt(end, offset) THEN Panic
        ELSE Some(ReaderValue(kind, Slice(data, offset, width)))

\* data.get(offset): no sum
index_get_read(kind, data, offset) ==
    IF offset >= 0 /\ offset < Len(data)
    THEN Some(ReaderValue(kind, <<data[offset + 1]>>))
    ELSE None

\* the readers of instr::utils: read_u8, read_bool, read_u16_le, read_u32_le,
\* read_i32_le, read_u64_le, read_u128_le, read_pubkey and read_bytes
instr_utils_read(kind, data, offset, length, overflow_checks) ==
    CASE kind \in {"u8", "bool"} -> index_get_read(kind, data, offset)
      [] kind = "bytes" ->
            len_check_read(kind, data, offset, length, overflow_checks)
      [] OTHER ->
            slice_get_read(kind, data, offset, ReaderWidth(kind, length),
                           overflow_checks)

\* the readers of accounts::utils: read_pubkey, read_u64_le, read_u16_le and
\* read_u8
accounts_utils_read(kind, data, offset, length, overflow_checks) ==
    IF kind = "u8" THEN index_get_read(kind, data, offset)
    ELSE len_check_read(kind, data, offset, ReaderWidth(kind, length),
                        overflow_checks)

InstrReaderKinds ==
    {"u8", "bool", "u16", "u32", "i32", "u64", "u128", "pubkey", "bytes"}

AccountsReaderKinds == {"u8", "u16", "u64", "pubkey"}

\* the offsets tried: inside and just behind the buffer, and near usize::MAX
ReadOffsets == (0 .. (MaxReadLen + 1)) \cup {-32, -16, -8, -4, -2, -1}

\* the lengths read_bytes is asked for: 0, 3 and usize::MAX
ReadLengths(kind) == IF kind = "bytes" THEN {0, 3, -1} ELSE {0}

\* a checked reader of either module is called on a buffer and an offset, in
\* a build with or without overflow checks
ReadChecked ==
    /\ call = Idle
    /\ \E n \in 0..MaxReadLen, offset \in ReadOffsets,
          overflow_checks \in BOOLEAN :
       \E module \in {"instr::utils", "accounts::utils"} :
       \E kind \in (IF module = "instr::utils" THEN InstrReaderKinds
                     ELSE AccountsReaderKinds) :
       \E length \in ReadLengths(kind) :
        /\ call' = [fn |-> "read", module |-> module, kind |-> kind,
                    data |-> Ramp(250, n), offset |-> offset,
                    length |-> length, overflow_checks |-> overflow_checks]
        /\ result' =
                IF module = "instr::utils"
                THEN instr_utils_read(kind, Ramp(250, n), offset, length,
                                      overflow_checks)
                ELSE accounts_utils_read(kind, Ramp(250, n), offset, length,
                                         overflow_checks)
        /\ UNCHANGED <<clock, unchecked, stamped, perf_stats, warmup_vars>>

\* a < b and a <= b for two numbers of as many limbs
limbs_lt(a, b) ==
    \E i \in 1..Len(a) :
        a[i] < b[i] /\ \A j \in (i + 1)..Len(a) : a[j] = b[j]

limbs_le(a, b) == a = b \/ limbs_lt(a, b)

\* a - b for a >= b, limb by limb from limb i with the borrow
RECURSIVE limbs_sub(_, _, _, _)
limbs_sub(a, b, i, borrow) ==
    IF i > Len(a) THEN <<>>
    ELSE LET d == a[i] - b[i] - borrow
         IN  <<(d + 65536) % 65536>>
                \o limbs_sub(a, b, i + 1, IF d < 0 THEN 1 ELSE 0)

\* u64::saturating_sub
u64_saturating_sub(a, b) ==
    IF limbs_lt(a, b) THEN <<0, 0, 0, 0>> ELSE limbs_sub(a, b, 1, 0)

\* a * k in full, one limb more than a, for k <= 10000
RECURSIVE limbs_mul(_, _, _, _)
limbs_mul(a, k, i, carry) ==
    IF i > Len(a) THEN <<carry>>
    ELSE LET p == a[i] * k + carry
         IN  <<p % 65536>> \o limbs_mul(a, k, i + 1, p \div 65536)

wide_mul(a, k) == limbs_mul(a, k, 1, 0)

\* (product / divisor).min(10000): the largest q of lo..hi with
\* q * divisor <= product, the product having five limbs
RECURSIVE quotient_min(_, _, _, _)
quotient_min(product, divisor, lo, hi) ==
    IF lo = hi THEN lo
    ELSE LET mid == (lo + hi + 1) \div 2
         IN  IF limbs_le(wide_mul(divisor, mid), product)
             THEN quotient_min(product, divisor, mid, hi)
             ELSE quotient_min(product, divisor, lo, mid - 1)

\* a u16 returned
Bps(n) == [bps |-> n]

\* ((base.saturating_sub(taken)) * 10000) / base, .min(10000) as u16: the
\* product is a u64 multiplication, which panics on overflow in a build with
\* overflow checks and keeps the low 64 bits otherwise
bps_of(base, taken, overflow_checks) ==
    IF base = <<0, 0, 0, 0>> THEN Bps(0)
    ELSE LET wide == wide_mul(u64_saturating_sub(base, taken), 10000)
         IN  IF wide[5] # 0 /\ overflow_checks THEN Panic
             ELSE Bps(quotient_min(SubSeq(wide, 1, 4) \o <<0>>, base, 0, 10000))

\* calculate_slippage_bps(amount_in, amount_out_min)
calculate_slippage_bps(amount_in, amount_out_min, overflow_checks) ==
    bps_of(amount_in, amount_out_min, overflow_checks)

\* calculate_price_impact_bps(amount_in, amount_out, expected_out):
\* amount_in is not read
calculate_price_impact_bps(amount_in, amount_out, expected_out, overflow_checks) ==
    bps_of(expected_out, amount_out, overflow_checks)

\* the amounts tried: small ones, the two around u64::MAX / 10000, the top
\* bit and the two largest
U64Samples ==
    {U64(0), U64(1), U64(3), U64(9999), U64(10000), U64(1000000),
     <<4299, 47815, 36280, 6>>, <<4300, 47815, 36280, 6>>,
     <<8598, 30094, 7025, 13>>, <<0, 0, 0, 32768>>,
     <<65534, 65535, 65535, 65535>>, <<65535, 65535, 65535, 65535>>}

\* instr::utils::calculate_slippage_bps is called
CalculateSlippageBps ==
    /\ call = Idle
    /\ \E amount_in \in U64Samples, amount_out_min \in U64Samples,
          overflow_checks \in BOOLEAN :
        /\ call' = [fn |-> "calculate_slippage_bps", base |-> amount_in,
                    taken |-> amount_out_min,
                    overflow_checks |-> overflow_checks]
        /\ result' = calculate_slippage_bps(amount_in, amount_out_min,
                                            overflow_checks)
        /\ UNCHANGED <<clock, unchecked, stamped, perf_stats, warmup_vars>>

\* instr::utils::calculate_price_impact_bps is called
CalculatePriceImpactBps ==
    /\ call = Idle
    /\ \E amount_in \in {U64(0), U64(5)}, amount_out \in U64Samples,
          expected_out \in U64Samples, overflow_checks \in BOOLEAN :
        /\ call' = [fn |-> "calculate_price_impact_bps",
                    amount_in |-> amount_in, base |-> expected_out,
                    taken |-> amount_out, overflow_checks |-> overflow_checks]
        /\ result' = calculate_price_impact_bps(amount_in, amount_out,
                                                expected_out, overflow_checks)
        /\ UNCHANGED <<clock, unchecked, stamped, perf_stats, warmup_vars>>

\* where a bool is decoded from a wire byte
BoolReaders ==
    {"instr::utils::read_bool", "logs::pump_amm::read_bool_unchecked",
     "instr::raydium_clmm::parse_swap_instruction"}

\* a bool decoded from the byte: by read_bool at offset 2 of a buffer, by
\* parse_buy_event_optimized as track_volume (offset 352 of a Buy record),
\* by raydium_clmm's parse_swap_instruction as is_base_input (offset 24)
ReadBool ==
    /\ call = Idle
    /\ \E reader \in BoolReaders, byte \in 0..255 :
        /\ call' = [fn |-> "read_bool", reader |-> reader, byte |-> byte]
        /\ result' =
            CASE reader = "instr::utils::read_bool" ->
                    read_bool(Overlay(Ramp(1, 4), 2, <<byte>>), 2)
              [] reader = "logs::pump_amm::read_bool_unchecked" ->
                    Some(parse_buy_event_optimized(
                            Overlay(Ramp(5, 385), 352, <<byte>>),
                            Ctx("sigA", 7, 3, None), 9, 0).track_volume)
              [] reader = "instr::raydium_clmm::parse_swap_instruction" ->
                    Some(raydium_clmm_parse_swap_instruction(
                            Overlay(Ramp(7, 25), 24, <<byte>>),
                            AccountKeys(2), Ctx("sigA", 7, 3, None)).zero_for_one)
        /\ UNCHANGED <<clock, unchecked, stamped, perf_stats, warmup_vars>>

NextUtils ==
    \/ ReadBool
    \/ ReadChecked
    \/ CalculateSlippageBps
    \/ CalculatePriceImpactBps
    \/ Return

SpecUtils == Init /\ [][NextUtils]_vars

-----------------------------------------------------------------------------
(* The warmup routine: src/src/warmup.rs *)

\* the three steps of the initialization body, in the order of the source
WarmupSteps == <<"warmup_rayon", "warmup_simd_finders", "warmup_base64">>

AllWarmupSteps == {WarmupSteps[i] : i \in DOMAIN WarmupSteps}

\* what WARMED_UP.swap(true, SeqCst) leaves a caller that got `old` with
\* warmup_parser setting the flag only when the body has run
warmup_parser_entry_late_flag(old) ==
    IF old THEN [flag |-> TRUE, pc |-> "idle", runs |-> 0]
    ELSE [flag |-> FALSE, pc |-> WarmupSteps[1], runs |-> 1]

\* warmup_parser up to its first step: WARMED_UP.swap(true, SeqCst), and the
\* return when the flag was set already
warmup_parser_entry(old) ==
    IF old THEN [flag |-> TRUE, pc |-> "idle", runs |-> 0]
    ELSE [flag |-> TRUE, pc |-> WarmupSteps[1], runs |-> 1]

\* thread t calls warmup_parser: the swap, and the return of a later call
WarmupParser(t) ==
    /\ warmup_pc[t] = "idle"
    /\ LET entry == warmup_parser_entry(WARMED_UP)
       IN  /\ WARMED_UP' = entry.flag
           /\ warmup_pc' = [warmup_pc EXCEPT ![t] = entry.pc]
           /\ body_runs' = body_runs + entry.runs
           /\ returned' = IF entry.pc = "idle" THEN returned \cup {t}
                          ELSE returned
    /\ UNCHANGED <<warmed, observed, decoder_vars>>

\* thread t completes step i of the body; after the last it returns
WarmupStep(t, i) ==
    /\ warmup_pc[t] = WarmupSteps[i]
    /\ warmed' = warmed \cup {WarmupSteps[i]}
    /\ IF i < Len(WarmupSteps)
       THEN /\ warmup_pc' = [warmup_pc EXCEPT ![t] = WarmupSteps[i + 1]]
            /\ UNCHANGED returned
       ELSE /\ warmup_pc' = [warmup_pc EXCEPT ![t] = "idle"]
            /\ returned' = returned \cup {t}
    /\ UNCHANGED <<WARMED_UP, body_runs, observed, decoder_vars>>

WarmupRayon == \E t \in Threads : WarmupStep(t, 1)

WarmupSimdFinders == \E t \in Threads : WarmupStep(t, 2)

WarmupBase64 == \E t \in Threads : WarmupStep(t, 3)

\* thread t calls is_warmed_up(): WARMED_UP.load(SeqCst)
IsWarmedUp(t) ==
    /\ warmup_pc[t] = "idle"
    /\ observed[t] # Some(WARMED_UP)
    /\ observed' = [observed EXCEPT ![t] = Some(WARMED_UP)]
    /\ UNCHANGED <<WARMED_UP, warmup_pc, warmed, body_runs, returned,
                   decoder_vars>>

\* the warmup routine is called at process start, next to the account decoders
NextWarmup ==
    \/ \E t \in Threads : WarmupParser(t)
    \/ WarmupRayon
    \/ WarmupSimdFinders
    \/ WarmupBase64
    \/ \E t \in Threads : IsWarmedUp(t)

SpecWarmup == Init /\ [][NextWarmup]_vars

-----------------------------------------------------------------------------
(* The log lines the caller hands to the bounds-checked log decoders *)

\* logs::orca_whirlpool: the discriminator of each variant, the event it decodes
\* to and the fields the program packs after the discriminator, in order
OrcaWhirlpoolLogVariants ==
    { [discriminator |-> <<225, 202, 73, 175, 147, 43, 160, 150>>,
       type |-> "OrcaWhirlpoolSwap",
       fields |-> <<<<"whirlpool", "pubkey">>, <<"a_to_b", "bool">>,
                    <<"pre_sqrt_price", "u128">>,
                    <<"post_sqrt_price", "u128">>, <<"input_amount", "u64">>,
                    <<"output_amount", "u64">>,
                    <<"input_transfer_fee", "u64">>,
                    <<"output_transfer_fee", "u64">>, <<"lp_fee", "u64">>,
                    <<"protocol_fee", "u64">>>>],
      [discriminator |-> <<30, 7, 144, 181, 102, 254, 155, 161>>,
       type |-> "OrcaWhirlpoolLiquidityIncreased",
       fields |-> <<<<"whirlpool", "pubkey">>, <<"position", "pubkey">>,
                    <<"tick_lower_index", "i32">>,
                    <<"tick_upper_index", "i32">>, <<"liquidity", "u128">>,
                    <<"token_a_amount", "u64">>, <<"token_b_amount", "u64">>,
                    <<"token_a_transfer_fee", "u64">>,
                    <<"token_b_transfer_fee", "u64">>>>],
      [discriminator |-> <<166, 1, 36, 71, 112, 202, 181, 171>>,
       type |-> "OrcaWhirlpoolLiquidityDecreased",
       fields |-> <<<<"whirlpool", "pubkey">>, <<"position", "pubkey">>,
                    <<"tick_lower_index", "i32">>,
                    <<"tick_upper_index", "i32">>, <<"liquidity", "u128">>,
                    <<"token_a_amount", "u64">>, <<"token_b_amount", "u64">>,
                    <<"token_a_transfer_fee", "u64">>,
                    <<"token_b_transfer_fee", "u64">>>>],
      [discriminator |-> <<100, 118, 173, 87, 12, 198, 254, 229>>,
       type |-> "OrcaWhirlpoolPoolInitialized",
       fields |-> <<<<"whirlpool", "pubkey">>,
                    <<"whirlpools_config", "pubkey">>,
                    <<"token_mint_a", "pubkey">>,
                    <<"token_mint_b", "pubkey">>, <<"tick_spacing", "u16">>,
                    <<"token_program_a", "pubkey">>,
                    <<"token_program_b", "pubkey">>, <<"decimals_a", "u8">>,
                    <<"decimals_b", "u8">>,
                    <<"initial_sqrt_price", "u128">>>>]}

\* logs::raydium_amm: the discriminator of each variant, the event it decodes
\* to and the fields the program packs after the discriminator, in order
RaydiumAmmLogVariants ==
    { [discriminator |-> <<0, 0, 0, 0, 0, 0, 0, 9>>,
       type |-> "RaydiumAmmV4Swap",
       fields |-> <<<<"amm", "pubkey">>, <<"user", "pubkey">>,
                    <<"amount_in", "u64">>, <<"minimum_amount_out", "u64">>>>],
      [discriminator |-> <<0, 0, 0, 0, 0, 0, 0, 11>>,
       type |-> "RaydiumAmmV4Swap",
       fields |-> <<<<"amm", "pubkey">>, <<"user", "pubkey">>,
                    <<"max_amount_in", "u64">>, <<"amount_out", "u64">>>>],
      [discriminator |-> <<0, 0, 0, 0, 0, 0, 0, 3>>,
       type |-> "RaydiumAmmV4Deposit",
       fields |-> <<<<"amm", "pubkey">>, <<"user", "pubkey">>,
                    <<"max_coin_amount", "u64">>, <<"max_pc_amount", "u64">>,
                    <<"base_side", "u64">>>>],
      [discriminator |-> <<0, 0, 0, 0, 0, 0, 0, 4>>,
       type |-> "RaydiumAmmV4Withdraw",
       fields |-> <<<<"amm", "pubkey">>, <<"user", "pubkey">>,
                    <<"amount", "u64">>>>],
      [discriminator |-> <<0, 0, 0, 0, 0, 0, 0, 1>>,
       type |-> "RaydiumAmmV4Initialize2",
       fields |-> <<<<"amm", "pubkey">>, <<"user", "pubkey">>,
                    <<"nonce", "u8">>, <<"open_time", "u64">>,
                    <<"init_pc_amount", "u64">>,
                    <<"init_coin_amount", "u64">>>>],
      [discriminator |-> <<0, 0, 0, 0, 0, 0, 0, 7>>,
       type |-> "RaydiumAmmV4WithdrawPnl",
       fields |-> <<<<"amm", "pubkey">>, <<"pnl_owner", "pubkey">>>>]}

\* logs::meteora_dlmm: the discriminator of each variant, the event it decodes
\* to and the fields the program packs after the discriminator, in order
MeteoraDlmmLogVariants ==
    { [discriminator |-> <<143, 190, 90, 218, 196, 30, 51, 222>>,
       type |-> "MeteoraDlmmSwap",
       fields |-> <<<<"pool", "pubkey">>, <<"from", "pubkey">>,
                    <<"start_bin_id", "i32">>, <<"end_bin_id", "i32">>,
                    <<"amount_in", "u64">>, <<"amount_out", "u64">>,
                    <<"swap_for_y", "bool">>, <<"fee", "u64">>,
                    <<"protocol_fee", "u64">>, <<"fee_bps", "u128">>,
                    <<"host_fee", "u64">>>>],
      [discriminator |-> <<181, 157, 89, 67, 143, 182, 52, 72>>,
       type |-> "MeteoraDlmmAddLiquidity",
       fields |-> <<<<"pool", "pubkey">>, <<"from", "pubkey">>,
                    <<"position", "pubkey">>, <<"amount_0", "u64">>,
                    <<"amount_1", "u64">>, <<"active_bin_id", "i32">>>>],
      [discriminator |-> <<80, 85, 209, 72, 24, 206, 35, 178>>,
       type |-> "MeteoraDlmmRemoveLiquidity",
       fields |-> <<<<"pool", "pubkey">>, <<"from", "pubkey">>,
                    <<"position", "pubkey">>, <<"amount_0", "u64">>,
                    <<"amount_1", "u64">>, <<"active_bin_id", "i32">>>>],
      [discriminator |-> <<95, 180, 10, 172, 84, 174, 232, 40>>,
       type |-> "MeteoraDlmmInitializePool",
       fields |-> <<<<"pool", "pubkey">>, <<"creator", "pubkey">>,
                    <<"active_bin_id", "i32">>, <<"bin_step", "u16">>>>],
      [discriminator |-> <<123, 233, 11, 43, 146, 180, 97, 119>>,
       type |-> "MeteoraDlmmCreatePosition",
       fields |-> <<<<"pool", "pubkey">>, <<"position", "pubkey">>,
                    <<"owner", "pubkey">>, <<"lower_bin_id", "i32">>,
                    <<"width", "u32">>>>],
      [discriminator |-> <<94, 168, 102, 45, 59, 122, 137, 54>>,
       type |-> "MeteoraDlmmClosePosition",
       fields |-> <<<<"pool", "pubkey">>, <<"position", "pubkey">>,
                    <<"owner", "pubkey">>>>],
      [discriminator |-> <<152, 70, 208, 111, 104, 91, 44, 1>>,
       type |-> "MeteoraDlmmClaimFee",
       fields |-> <<<<"pool", "pubkey">>, <<"position", "pubkey">>,
                    <<"owner", "pubkey">>, <<"fee_x", "u64">>,
                    <<"fee_y", "u64">>>>]}

\* logs::meteora_amm: the discriminator of each variant, the event it decodes
\* to and the fields the program packs after the discriminator, in order
MeteoraAmmLogVariants ==
    { [discriminator |-> <<81, 108, 227, 190, 205, 208, 10, 196>>,
       type |-> "MeteoraPoolsSwap",
       fields |-> <<<<"in_amount", "u64">>, <<"out_amount", "u64">>,
                    <<"trade_fee", "u64">>, <<"admin_fee", "u64">>,
                    <<"host_fee", "u64">>>>],
      [discriminator |-> <<31, 94, 125, 90, 227, 52, 61, 186>>,
       type |-> "MeteoraPoolsAddLiquidity",
       fields |-> <<<<"lp_mint_amount", "u64">>, <<"token_a_amount", "u64">>,
                    <<"token_b_amount", "u64">>>>],
      [discriminator |-> <<116, 244, 97, 232, 103, 31, 152, 58>>,
       type |-> "MeteoraPoolsRemoveLiquidity",
       fields |-> <<<<"lp_unmint_amount", "u64">>,
                    <<"token_a_out_amount", "u64">>,
                    <<"token_b_out_amount", "u64">>>>],
      [discriminator |-> <<121, 127, 38, 136, 92, 55, 14, 247>>,
       type |-> "MeteoraPoolsBootstrapLiquidity",
       fields |-> <<<<"lp_mint_amount", "u64">>, <<"token_a_amount", "u64">>,
                    <<"token_b_amount", "u64">>, <<"pool", "pubkey">>>>],
      [discriminator |-> <<202, 44, 41, 88, 104, 220, 157, 82>>,
       type |-> "MeteoraPoolsPoolCreated",
       fields |-> <<<<"lp_mint", "pubkey">>, <<"token_a_mint", "pubkey">>,
                    <<"token_b_mint", "pubkey">>, <<"pool_type", "u8">>,
                    <<"pool", "pubkey">>>>],
      [discriminator |-> <<245, 26, 198, 164, 88, 18, 75, 9>>,
       type |-> "MeteoraPoolsSetPoolFees",
       fields |-> <<<<"trade_fee_numerator", "u64">>,
                    <<"trade_fee_denominator", "u64">>,
                    <<"owner_trade_fee_numerator", "u64">>,
                    <<"owner_trade_fee_denominator", "u64">>,
                    <<"pool", "pubkey">>>>]}

\* logs::raydium_launchpad: the discriminator of each variant, the event it decodes
\* to and the fields the program packs after the discriminator, in order
RaydiumLaunchpadLogVariants ==
    { [discriminator |-> <<2, 3, 4, 5, 6, 7, 8, 9>>,
       type |-> "BonkTrade",
       fields |-> <<<<"pool_state", "pubkey">>, <<"user", "pubkey">>,
                    <<"amount_in", "u64">>, <<"amount_out", "u64">>,
                    <<"is_buy", "bool">>, <<"exact_in", "bool">>>>],
      [discriminator |-> <<1, 2, 3, 4, 5, 6, 7, 8>>,
       type |-> "BonkPoolCreate",
       fields |-> <<<<"pool_state", "pubkey">>, <<"_token_a_mint", "pubkey">>,
                    <<"_token_b_mint", "pubkey">>, <<"creator", "pubkey">>,
                    <<"_initial_liquidity_a", "u64">>,
                    <<"_initial_liquidity_b", "u64">>>>],
      [discriminator |-> <<3, 4, 5, 6, 7, 8, 9, 10>>,
       type |-> "BonkMigrateAmm",
       fields |-> <<<<"old_pool", "pubkey">>, <<"new_pool", "pubkey">>,
                    <<"user", "pubkey">>, <<"liquidity_amount", "u64">>>>]}

\* the two records tried of each variant
Samples == {1, 2}

\* the number the logging program packs into field i of sample s
FieldNumber(i, s) == IF s = 1 THEN 37 * i + 5 ELSE 1000003 * i + 70000

\* the bytes of field i of sample s, little-endian
PackedField(kind, i, s) ==
    CASE kind = "pubkey" -> Ramp(i + 7 * s, 32)
      [] kind = "bool" -> <<(i + s) % 2>>
      [] kind = "u8" -> <<(13 * i + s) % 256>>
      [] kind = "u16" -> to_le_bytes(FieldNumber(i, s) % 65536, 2)
      [] kind = "u32" -> to_le_bytes(FieldNumber(i, s), 4)
      [] kind = "i32" -> IF s = 1 THEN to_le_bytes(FieldNumber(i, s), 4)
                         ELSE to_le_bytes(65536 - i, 2) \o <<255, 255>>
      [] kind = "u64" -> to_le_bytes(FieldNumber(i, s), 8)
      [] kind = "u128" -> to_le_bytes(FieldNumber(i, s), 16)

\* the value of field i of sample s: sample 2 has -i in its i32 fields
FieldValue(kind, i, s) ==
    CASE kind = "pubkey" -> Ramp(i + 7 * s, 32)
      [] kind = "bool" -> (i + s) % 2 = 1
      [] kind = "u8" -> (13 * i + s) % 256
      [] kind = "u16" -> FieldNumber(i, s) % 65536
      [] kind = "u32" -> <<FieldNumber(i, s) % 65536, FieldNumber(i, s) \div 65536>>
      [] kind = "i32" -> IF s = 1 THEN FieldNumber(i, s) ELSE 0 - i
      [] kind = "u64" -> U64(FieldNumber(i, s))
      [] kind = "u128" -> U128(FieldNumber(i, s))

\* the fields i.. of a record, packed in declared order
RECURSIVE PackedFields(_, _, _)
PackedFields(fields, i, s) ==
    IF i > Len(fields) THEN <<>>
    ELSE PackedField(fields[i][2], i, s) \o PackedFields(fields, i + 1, s)

\* the value of each field of the record, by name
FieldValues(fields, s) ==
    [name \in {fields[i][1] : i \in DOMAIN fields} |->
        LET i == CHOOSE j \in DOMAIN fields : fields[j][1] = name
        IN  FieldValue(fields[i][2], i, s)]

\* the Traded record of the specification's scenario: a_to_b = 1,
\* input_amount = 5_000, output_amount = 4_900, lp_fee = 10, protocol_fee = 2
OrcaTradedExampleValues ==
    [whirlpool |-> Ramp(1, 32), a_to_b |-> TRUE,
     pre_sqrt_price |-> U128(79228162), post_sqrt_price |-> U128(79220000),
     input_amount |-> U64(5000), output_amount |-> U64(4900),
     input_transfer_fee |-> U64(0), output_transfer_fee |-> U64(0),
     lp_fee |-> U64(10), protocol_fee |-> U64(2)]

OrcaTradedExampleBody ==
    Ramp(1, 32) \o <<1>> \o to_le_bytes(79228162, 16)
        \o to_le_bytes(79220000, 16) \o to_le_bytes(5000, 8)
        \o to_le_bytes(4900, 8) \o to_le_bytes(0, 8) \o to_le_bytes(0, 8)
        \o to_le_bytes(10, 8) \o to_le_bytes(2, 8)

\* a line of the keywords the text parsers look for
FallbackKeywords ==
    <<"s", "w", "a", "p", " ", "d", "e", "p", "o", "s", "i", "t", " ",
      "w", "i", "t", "h", "d", "r", "a", "w", " ", "a", "d", "d", " ",
      "l", "i", "q", "u", "i", "d", "i", "t", "y", " ", "p", "o", "o", "l",
      " ", "c", "r", "e", "a", "t", "e", " ", "m", "i", "g", "r", "a", "t", "e",
      " ", "t", "r", "a", "d", "e">>

\* how the record reaches the line: as for PumpSwap, or next to the keywords
TextShapes == {"keywords", "keywords after the record"}

TextLine(shape, record) ==
    CASE shape \in LogShapes -> LogLine(shape, record)
      [] shape = "keywords" -> FallbackKeywords
      [] shape = "keywords after the record" ->
            PROGRAM_DATA_MARKER \o base64_encode(record) \o <<" ">>
                \o FallbackKeywords

\* the context that goes with a sample: sample 1 comes without a block time
CtxOf(s) == CHOOSE ctx \in Ctxs : ctx.block_time_us.some = (s = 2)

\* how many trailing bytes of a record of size bytes are removed (-1: one
\* byte is appended instead)
Cuts(size) == (-1 .. MaxCut) \cup {size \div 2, size, size + 4}

\* a log fact: the variant the program logged (variant, body, values), the
\* discriminator it is sent with (head), the trailing bytes cut and the
\* shape of the line
LogFact(variant, head, body, values, cut, shape, ctx) ==
    [variant |-> variant, head |-> head, body |-> body, values |-> values,
     cut |-> cut, shape |-> shape, ctx |-> ctx]

\* every sample on a plain line with every cut; sample 1 in every other
\* shape, and with its discriminator replaced by one the program has not
LogFacts(variants) ==
    {LogFact(v, v.discriminator, PackedFields(v.fields, 1, s),
             FieldValues(v.fields, s), cut, "plain", CtxOf(s)) :
        <<v, s, cut>> \in {x \in variants \X Samples \X (-1 .. 255) :
                            x[3] \in Cuts(Len(PackedFields(x[1].fields, 1, 1)))}}
    \cup
    {LogFact(v, v.discriminator, PackedFields(v.fields, 1, 1),
             FieldValues(v.fields, 1), 0, shape, CtxOf(1)) :
        v \in variants, shape \in (LogShapes \cup TextShapes) \ {"plain"}}
    \cup
    {LogFact(v, UnknownDiscriminator, PackedFields(v.fields, 1, 1),
             FieldValues(v.fields, 1), 0, "plain", ctx) :
        v \in variants, ctx \in Ctxs}

OrcaTradedExampleFact ==
    LET v == CHOOSE x \in OrcaWhirlpoolLogVariants : x.type = "OrcaWhirlpoolSwap"
    IN  LogFact(v, v.discriminator, OrcaTradedExampleBody,
                OrcaTradedExampleValues, 0, "plain", CtxOf(2))

\* the bytes of the record the line carries
LogRecord(fact) ==
    LET whole == fact.head \o fact.body
    IN  IF fact.cut < 0 THEN whole \o <<0>>
        ELSE SubSeq(whole, 1, Len(whole) - fact.cut)

FactLine(fact) == TextLine(fact.shape, LogRecord(fact))

\* the receive time the caller hands over with a log line
LogRecvUs == 9

\* logs::orca_whirlpool::parse_log(log, signature, slot, tx_index,
\*                                 block_time_us, grpc_recv_us)
ParseOrcaWhirlpoolLog ==
    /\ call = Idle
    /\ \E fact \in LogFacts(OrcaWhirlpoolLogVariants) \cup {OrcaTradedExampleFact} :
        LET log == FactLine(fact)
        IN  /\ call' = [fn |-> "orca_whirlpool_parse_log", log |-> log,
                        ctx |-> fact.ctx, grpc_recv_us |-> LogRecvUs,
                        fact |-> fact]
            /\ result' = orca_whirlpool_parse_log(log, fact.ctx, LogRecvUs)
            /\ UNCHANGED <<clock, unchecked, stamped, perf_stats, warmup_vars>>

\* logs::raydium_amm::parse_log
ParseRaydiumAmmLog ==
    /\ call = Idle
    /\ \E fact \in LogFacts(RaydiumAmmLogVariants) :
        LET log == FactLine(fact)
        IN  /\ call' = [fn |-> "raydium_amm_parse_log", log |-> log,
                        ctx |-> fact.ctx, grpc_recv_us |-> LogRecvUs,
                        fact |-> fact]
            /\ result' = raydium_amm_parse_log(log, fact.ctx, LogRecvUs)
            /\ UNCHANGED <<clock, unchecked, stamped, perf_stats, warmup_vars>>

\* logs::meteora_dlmm::parse_log
ParseMeteoraDlmmLog ==
    /\ call = Idle
    /\ \E fact \in LogFacts(MeteoraDlmmLogVariants) :
        LET log == FactLine(fact)
        IN  /\ call' = [fn |-> "meteora_dlmm_parse_log", log |-> log,
                        ctx |-> fact.ctx, grpc_recv_us |-> LogRecvUs,
                        fact |-> fact]
            /\ result' = meteora_dlmm_parse_log(log, fact.ctx, LogRecvUs)
            /\ UNCHANGED <<clock, unchecked, stamped, perf_stats, warmup_vars>>

\* logs::meteora_amm::parse_log
ParseMeteoraAmmLog ==
    /\ call = Idle
    /\ \E fact \in LogFacts(MeteoraAmmLogVariants) :
        LET log == FactLine(fact)
        IN  /\ call' = [fn |-> "meteora_amm_parse_log", log |-> log,
                        ctx |-> fact.ctx, grpc_recv_us |-> LogRecvUs,
                        fact |-> fact]
            /\ result' = meteora_amm_parse_log(log, fact.ctx, LogRecvUs)
            /\ UNCHANGED <<clock, unchecked, stamped, perf_stats, warmup_vars>>

\* logs::raydium_launchpad::parse_log
ParseRaydiumLaunchpadLog ==
    /\ call = Idle
    /\ \E fact \in LogFacts(RaydiumLaunchpadLogVariants) :
        LET log == FactLine(fact)
        IN  /\ call' = [fn |-> "raydium_launchpad_parse_log", log |-> log,
                        ctx |-> fact.ctx, grpc_recv_us |-> LogRecvUs,
                        fact |-> fact]
            /\ result' = raydium_launchpad_parse_log(log, fact.ctx, LogRecvUs)
            /\ UNCHANGED <<clock, unchecked, stamped, perf_stats, warmup_vars>>

NextCheckedLogs ==
    \/ ParseOrcaWhirlpoolLog
    \/ ParseRaydiumAmmLog
    \/ ParseMeteoraDlmmLog
    \/ ParseMeteoraAmmLog
    \/ ParseRaydiumLaunchpadLog

\* the six log decoders, in the default build
NextLogs == ParseLog \/ NextCheckedLogs \/ Return

SpecLogs == Init /\ [][NextLogs]_vars

\* the instruction decoders and the six log decoders, in the default build
\* and in the build with the perf-stats feature
NextDecoders == ParseInstructionUnified \/ NextLogs

SpecDecoders == Init /\ [][NextDecoders]_vars

SpecPerfStats == InitBuild(PerfStatsZero) /\ [][NextDecoders]_vars

-----------------------------------------------------------------------------
(* Properties of the account decoders *)

PumpSwapAccountTypes == {"PumpSwapGlobalConfigAccount", "PumpSwapPoolAccount"}

IsUnifiedCall == call.fn = "parse_account_unified"
IsTokenCall == call.fn = "parse_token_account"

MatchesPumpSwapDiscriminator(data) ==
    \/ has_discriminator(data, GLOBAL_CONFIG_DISCRIMINATOR)
    \/ has_discriminator(data, POOL_DISCRIMINATOR)

\* C1 as stated: the decision chain of parse_account_unified is
\* "PumpSwap owner and PumpSwap discriminator, else nonce magic, else token":
\* every account failing the PumpSwap test is offered to the nonce check and
\* then to the token decoder.
C1_ChainAsStated ==
    (IsUnifiedCall /\ Len(call.account.data) > 0) =>
        IF /\ call.account.owner = PUMPSWAP_PROGRAM_ID
           /\ MatchesPumpSwapDiscriminator(call.account.data)
        THEN result.type \in PumpSwapAccountTypes \cup {"None"}
        ELSE IF is_nonce_account(call.account.data)
        THEN result = parse_nonce_account(call.account, call.metadata)
        ELSE result = parse_token_account(call.account, call.metadata)

\* C1 amended: an account is decoded as PumpSwap only if its owner is the
\* PumpSwap program and its first 8 bytes match the respective discriminator;
\* a PumpSwap-owned account matching neither discriminator yields absence and
\* is offered to no other decoder; an account of any other owner is decoded as a
\* nonce account when its first 8 bytes are the nonce magic, and is handed to
\* the token decoder otherwise.
C1_DecisionChain ==
    (IsUnifiedCall /\ Len(call.account.data) > 0) =>
        /\ result.type = "PumpSwapGlobalConfigAccount" =>
              /\ call.account.owner = PUMPSWAP_PROGRAM_ID
              /\ Slice(call.account.data, 0, 8) = GLOBAL_CONFIG_DISCRIMINATOR
        /\ result.type = "PumpSwapPoolAccount" =>
              /\ call.account.owner = PUMPSWAP_PROGRAM_ID
              /\ Slice(call.account.data, 0, 8) = POOL_DISCRIMINATOR
        /\ call.account.owner = PUMPSWAP_PROGRAM_ID =>
              /\ result.type \in PumpSwapAccountTypes \cup {"None"}
              /\ ~MatchesPumpSwapDiscriminator(call.account.data) => result = NoEvent
        /\ call.account.owner # PUMPSWAP_PROGRAM_ID =>
              IF Len(call.account.data) >= 8
                 /\ Slice(call.account.data, 0, 8) = NONCE_DISCRIMINATOR
              THEN /\ result.type \in {"NonceAccount", "None"}
                   /\ result = parse_nonce_account(call.account, call.metadata)
              ELSE /\ result.type \in {"TokenInfo", "TokenAccount", "None"}
                   /\ result = parse_token_account(call.account, call.metadata)

\* a PumpSwap-owned, mint-sized account without a PumpSwap discriminator was
\* decoded to absence, and accounts of other owners reached the nonce and the
\* token decoders
C1_Witness ==
    /\ IsUnifiedCall
    /\ call.account.owner = PUMPSWAP_PROGRAM_ID
    /\ Len(call.account.data) = MINT_SIZE
    /\ ~MatchesPumpSwapDiscriminator(call.account.data)
    /\ ~is_nonce_account(call.account.data)
    /\ result = NoEvent

\* the SPL-shaped buffers, whatever their first 8 bytes
IsSplData(data) ==
    \E prefix \in DataPrefixes : data = Overlay(SplData(Len(data)), 0, prefix)

\* C9: for data of length 82..100 parse_token_account emits TokenInfo, never
\* TokenAccount, with supply the little-endian u64 at 36..44, decimals the byte
\* at 44, and pubkey, owner, lamports, executable and rent_epoch of the account.
C9_MintDecoding ==
    (IsTokenCall /\ Len(call.account.data) >= 82 /\ Len(call.account.data) <= 100) =>
        /\ result.type = "TokenInfo"
        /\ result.supply = from_le_bytes(Slice(call.account.data, 36, 8))
        /\ result.decimals = call.account.data[45]
        /\ IsSplData(call.account.data) =>
              result.supply = U64(1000000) /\ result.decimals = 6
        /\ result.pubkey = call.account.pubkey
        /\ result.owner = call.account.owner
        /\ result.lamports = call.account.lamports
        /\ result.executable = call.account.executable
        /\ result.rent_epoch = call.account.rent_epoch
        /\ result.metadata = call.metadata

\* the 82-byte mint with supply 1_000_000 and 6 decimals was decoded
C9_Witness ==
    /\ IsTokenCall
    /\ call.account.data = SplData(82)
    /\ result.type = "TokenInfo"
    /\ result.supply = U64(1000000)
    /\ result.decimals = 6

\* C10: for data longer than 100 bytes parse_token_account emits TokenAccount,
\* never TokenInfo, with amount = Some(little-endian u64 at 64..72) and
\* token_owner = account.owner, the owning program.
C10_TokenAccountDecoding ==
    (IsTokenCall /\ Len(call.account.data) > 100) =>
        /\ result.type = "TokenAccount"
        /\ result.amount = Some(from_le_bytes(Slice(call.account.data, 64, 8)))
        /\ IsSplData(call.account.data) => result.amount = Some(U64(500))
        /\ result.token_owner = call.account.owner
        /\ result.owner = call.account.owner

\* the 165-byte token account holding 500 was decoded
C10_Witness ==
    /\ IsTokenCall
    /\ call.account.data = SplData(165)
    /\ result.type = "TokenAccount"
    /\ result.amount = Some(U64(500))
    /\ result.token_owner = call.account.owner

\* C11 as stated: the length alone chooses the decoder: data of at most 100
\* bytes gives TokenInfo or absence, never TokenAccount; longer data gives
\* TokenAccount.
C11_ClassifiedByLengthAlone ==
    IsTokenCall =>
        IF Len(call.account.data) <= 100
        THEN /\ result.type \in {"TokenInfo", "None"}
             /\ result = parse_mint_fast(call.account, call.metadata)
        ELSE /\ result.type = "TokenAccount"
             /\ result = parse_token_fast(call.account, call.metadata)

\* C11 (amended): data of at most 100 bytes is tried as a mint first and gives
\* TokenInfo when it has the 82 bytes of a mint; data the mint decoder rejects
\* is handed to the token-account decoder, which gives TokenAccount for 72 to
\* 81 bytes and absence below 72; data of more than 100 bytes gives
\* TokenAccount.  TokenAccount is never emitted for 82 to 100 bytes.
C11_MintFirstThenToken ==
    IsTokenCall =>
        LET n == Len(call.account.data)
        IN  /\ (82 <= n /\ n <= 100) =>
                  /\ result.type = "TokenInfo"
                  /\ result = parse_mint_fast(call.account, call.metadata)
            /\ (72 <= n /\ n < 82) =>
                  /\ result.type = "TokenAccount"
                  /\ result.amount =
                        Some(from_le_bytes(Slice(call.account.data, 64, 8)))
            /\ n < 72 => result = NoEvent
            /\ n > 100 =>
                  /\ result.type = "TokenAccount"
                  /\ result = parse_token_fast(call.account, call.metadata)

\* an 80-byte buffer, too short for a mint, came out as a token account
C11_Witness ==
    /\ IsTokenCall
    /\ Len(call.account.data) = 80
    /\ result.type = "TokenAccount"
    /\ result.amount = Some(U64(500))

\* C12: an account whose owner is neither the PumpSwap program nor an SPL
\* Token program, and whose data does not start with the nonce magic, gives
\* no TokenInfo and no TokenAccount, whatever its length.
C12_NoDecoderForOwner ==
    (/\ IsUnifiedCall
     /\ call.account.owner # PUMPSWAP_PROGRAM_ID
     /\ ~is_token_program_account(call.account.owner)
     /\ ~is_nonce_account(call.account.data))
    => result.type \notin {"TokenInfo", "TokenAccount"}

IsNonceCall == call.fn = "parse_nonce_account"

\* C13: parse_nonce_account emits NonceAccount exactly when the nonce decoder
\* succeeds with the Initialized state (a known version, state 1 and the 80
\* bytes of the state); a failure or the Uninitialized state gives absence.
\* The event carries the decoder's blockhash (bytes 40..72) as nonce, its
\* authority (bytes 8..40), and pubkey, owner, lamports, executable and
\* rent_epoch of the account.
C13_NonceOnlyInitialized ==
    IsNonceCall =>
        LET data == call.account.data
            initialized ==
                /\ Len(data) >= 80
                /\ Slice(data, 0, 4) \in {<<0, 0, 0, 0>>, <<1, 0, 0, 0>>}
                /\ Slice(data, 4, 4) = <<1, 0, 0, 0>>
        IN  /\ (result # NoEvent <=> initialized)
            /\ parse_nonce(data).kind \in {"Err", "Uninitialized"} =>
                  result = NoEvent
            /\ result # NoEvent =>
                  /\ result.type = "NonceAccount"
                  /\ result.nonce = [base58 |-> Slice(data, 40, 32)]
                  /\ result.authority = [base58 |-> Slice(data, 8, 32)]
                  /\ result.pubkey = call.account.pubkey
                  /\ result.owner = call.account.owner
                  /\ result.lamports = call.account.lamports
                  /\ result.executable = call.account.executable
                  /\ result.rent_epoch = call.account.rent_epoch
                  /\ result.metadata = call.metadata

\* account data holding a whole nonce state marked Uninitialized was decoded
\* to absence
C13_Witness ==
    /\ IsNonceCall
    /\ Len(call.account.data) >= 80
    /\ parse_nonce(call.account.data).kind = "Uninitialized"
    /\ result = NoEvent

-----------------------------------------------------------------------------
(* Properties of the instruction decoders *)

IsInstrCall == call.fn = "parse_instruction_unified"

IsInstrCallOf(p) == IsInstrCall /\ call.program_id = p

\* the five programs whose instruction decoders are modelled byte by byte
ByteDecodedPrograms ==
    {RAYDIUM_AMM_V4_PROGRAM_ID, RAYDIUM_CLMM_PROGRAM_ID,
     ORCA_WHIRLPOOL_PROGRAM_ID, PUMPSWAP_PROGRAM_ID,
     METEORA_DAMM_V2_PROGRAM_ID}

\* the program whose event family a variant belongs to
EventFamily(type) ==
    CASE type \in {"PumpFunTrade"} -> PUMPFUN_PROGRAM_ID
      [] type \in {"RaydiumAmmV4Swap", "RaydiumAmmV4Deposit",
                   "RaydiumAmmV4Withdraw", "RaydiumAmmV4Initialize2",
                   "RaydiumAmmV4WithdrawPnl"} -> RAYDIUM_AMM_V4_PROGRAM_ID
      [] type \in {"RaydiumClmmSwap", "RaydiumClmmIncreaseLiquidity",
                   "RaydiumClmmDecreaseLiquidity", "RaydiumClmmCreatePool",
                   "RaydiumClmmOpenPosition", "RaydiumClmmClosePosition"} ->
            RAYDIUM_CLMM_PROGRAM_ID
      [] type \in {"OrcaWhirlpoolSwap", "OrcaWhirlpoolLiquidityIncreased",
                   "OrcaWhirlpoolLiquidityDecreased",
                   "OrcaWhirlpoolPoolInitialized"} -> ORCA_WHIRLPOOL_PROGRAM_ID
      [] type \in {"RaydiumCpmmSwap"} -> RAYDIUM_CPMM_PROGRAM_ID
      [] type \in {"MeteoraDammV2Swap", "MeteoraDammV2AddLiquidity",
                   "MeteoraDammV2RemoveLiquidity", "MeteoraDammV2InitializePool",
                   "MeteoraDammV2CreatePosition", "MeteoraDammV2ClosePosition",
                   "MeteoraDammV2ClaimPositionFee",
                   "MeteoraDammV2InitializeReward", "MeteoraDammV2FundReward",
                   "MeteoraDammV2ClaimReward"} -> METEORA_DAMM_V2_PROGRAM_ID
      [] type \in {"MeteoraDlmmSwap"} -> METEORA_DLMM_PROGRAM_ID
      [] type \in {"BonkTrade"} -> BONK_PROGRAM_ID
      [] type \in {"PumpSwapBuy", "PumpSwapSell", "PumpSwapCreatePool"} ->
            PUMPSWAP_PROGRAM_ID
      [] type \in {"MeteoraPoolsSwap"} -> METEORA_POOLS_PROGRAM_ID
      [] OTHER -> "NoFamily"

\* what program p's own instruction decoder returns
OwnDecoder(p, instruction_data, accounts, ctx, outcome) ==
    CASE p = PUMPFUN_PROGRAM_ID ->
            parse_pumpfun_instruction(instruction_data, accounts, ctx, outcome)
      [] p = RAYDIUM_AMM_V4_PROGRAM_ID ->
            raydium_amm_parse_instruction(instruction_data, accounts, ctx)
      [] p = RAYDIUM_CLMM_PROGRAM_ID ->
            raydium_clmm_parse_instruction(instruction_data, accounts, ctx)
      [] p = ORCA_WHIRLPOOL_PROGRAM_ID ->
            orca_whirlpool_parse_instruction(instruction_data, accounts, ctx)
      [] p = RAYDIUM_CPMM_PROGRAM_ID ->
            parse_raydium_cpmm_instruction(instruction_data, accounts, ctx, outcome)
      [] p = METEORA_DAMM_V2_PROGRAM_ID ->
            meteora_damm_parse_instruction(instruction_data, accounts, ctx)
      [] p = METEORA_DLMM_PROGRAM_ID ->
            parse_meteora_dlmm_instruction(instruction_data, accounts, ctx, outcome)
      [] p = BONK_PROGRAM_ID ->
            parse_raydium_launchpad_instruction(instruction_data, accounts, ctx, outcome)
      [] p = PUMPSWAP_PROGRAM_ID ->
            pump_amm_parse_instruction(instruction_data, accounts, ctx)
      [] p = METEORA_POOLS_PROGRAM_ID ->
            parse_meteora_amm_instruction(instruction_data, accounts, ctx, outcome)

\* C2: parse_instruction_unified returns no event for an empty payload and
\* for a program that is none of the ten known ones; for a non-empty payload
\* and a known program P it returns what P's own decoder returns, so an
\* emitted event belongs to P's family, shared discriminators or not.
C2_DispatchByProgram ==
    IsInstrCall =>
        /\ (call.instruction_data = <<>> => result = NoEvent)
        /\ (call.program_id \notin InstrPrograms => result = NoEvent)
        /\ (call.instruction_data # <<>> /\ call.program_id \in InstrPrograms =>
                /\ result = OwnDecoder(call.program_id, call.instruction_data,
                                       call.accounts, call.ctx, call.outcome)
                /\ (result # NoEvent =>
                        EventFamily(result.type) = call.program_id))

\* an Orca Whirlpool instruction carrying the discriminator bytes Raydium
\* CLMM uses for its own swap came out as an Orca event
C2_Witness ==
    /\ IsInstrCallOf(ORCA_WHIRLPOOL_PROGRAM_ID)
    /\ Len(call.instruction_data) >= 8
    /\ Slice(call.instruction_data, 0, 8) = RAYDIUM_CLMM_SWAP
    /\ result # NoEvent
    /\ result.type = "OrcaWhirlpoolSwap"

\* the slots each variant decoder pulls with `?`: the event needs them all
RequiredSlots(type) ==
    CASE type = "RaydiumAmmV4Swap" -> {1}
      [] type = "RaydiumAmmV4Deposit" -> {1}
      [] type = "RaydiumAmmV4Withdraw" -> {1}
      [] type = "RaydiumAmmV4Initialize2" -> {4}
      [] type = "RaydiumAmmV4WithdrawPnl" -> {1}
      [] type = "RaydiumClmmSwap" -> {0}
      [] type = "RaydiumClmmIncreaseLiquidity" -> {0}
      [] type = "RaydiumClmmDecreaseLiquidity" -> {0}
      [] type = "RaydiumClmmCreatePool" -> {0}
      [] type = "RaydiumClmmOpenPosition" -> {0}
      [] type = "RaydiumClmmClosePosition" -> {0}
      [] type = "OrcaWhirlpoolSwap" -> {1}
      [] type = "OrcaWhirlpoolLiquidityIncreased" -> {1, 3}
      [] type = "OrcaWhirlpoolLiquidityDecreased" -> {1, 3}
      [] type = "OrcaWhirlpoolPoolInitialized" -> {1, 2, 3, 4}
      [] type = "PumpSwapBuy" -> {0}
      [] type = "PumpSwapSell" -> {0}
      [] type = "PumpSwapCreatePool" -> {0}
      [] type = "MeteoraDammV2Swap" -> {0, 7}
      [] type = "MeteoraDammV2AddLiquidity" -> {0, 1, 2}
      [] type = "MeteoraDammV2RemoveLiquidity" -> {0, 1, 2}
      [] type = "MeteoraDammV2InitializePool" -> {0, 2, 3}
      [] type = "MeteoraDammV2CreatePosition" -> {0, 1, 2}
      [] type = "MeteoraDammV2ClosePosition" -> {0, 1}
      [] type = "MeteoraDammV2ClaimPositionFee" -> {0, 1, 2}
      [] type = "MeteoraDammV2InitializeReward" -> {0, 1, 2}
      [] type = "MeteoraDammV2FundReward" -> {0, 1}
      [] type = "MeteoraDammV2ClaimReward" -> {0, 1, 2}

\* the slot whose key each variant decoder passes to create_metadata_simple
IdentitySlot(type) ==
    CASE type = "RaydiumAmmV4Swap" -> 1
      [] type = "RaydiumAmmV4Deposit" -> 1
      [] type = "RaydiumAmmV4Withdraw" -> 1
      [] type = "RaydiumAmmV4Initialize2" -> 4
      [] type = "RaydiumAmmV4WithdrawPnl" -> 1
      [] type = "RaydiumClmmSwap" -> 0
      [] type = "RaydiumClmmIncreaseLiquidity" -> 0
      [] type = "RaydiumClmmDecreaseLiquidity" -> 0
      [] type = "RaydiumClmmCreatePool" -> 0
      [] type = "RaydiumClmmOpenPosition" -> 0
      [] type = "RaydiumClmmClosePosition" -> 0
      [] type = "OrcaWhirlpoolSwap" -> 1
      [] type = "OrcaWhirlpoolLiquidityIncreased" -> 1
      [] type = "OrcaWhirlpoolLiquidityDecreased" -> 1
      [] type = "OrcaWhirlpoolPoolInitialized" -> 1
      [] type = "PumpSwapBuy" -> 0
      [] type = "PumpSwapSell" -> 0
      [] type = "PumpSwapCreatePool" -> 0
      [] type = "MeteoraDammV2Swap" -> 0
      [] type = "MeteoraDammV2AddLiquidity" -> 0
      [] type = "MeteoraDammV2RemoveLiquidity" -> 0
      [] type = "MeteoraDammV2InitializePool" -> 0
      [] type = "MeteoraDammV2CreatePosition" -> 0
      [] type = "MeteoraDammV2ClosePosition" -> 0
      [] type = "MeteoraDammV2ClaimPositionFee" -> 0
      [] type = "MeteoraDammV2InitializeReward" -> 0
      [] type = "MeteoraDammV2FundReward" -> 0
      [] type = "MeteoraDammV2ClaimReward" -> 0

\* the <<field, slot>> pairs each variant decoder pulls with unwrap_or_default
FallbackSlots(type) ==
    CASE type = "RaydiumAmmV4Swap" -> {<<"token_program", 0>>, <<"amm_authority", 2>>, <<"amm_open_orders", 3>>, <<"pool_coin_token_account", 5>>, <<"pool_pc_token_account", 6>>, <<"serum_program", 7>>, <<"serum_market", 8>>, <<"serum_bids", 9>>, <<"serum_asks", 10>>, <<"serum_event_queue", 11>>, <<"serum_coin_vault_account", 12>>, <<"serum_pc_vault_account", 13>>, <<"serum_vault_signer", 14>>, <<"user_source_token_account", 15>>, <<"user_destination_token_account", 16>>, <<"user_source_owner", 17>>}
      [] type = "RaydiumAmmV4Deposit" -> {<<"token_program", 0>>, <<"amm_authority", 2>>, <<"amm_open_orders", 3>>, <<"amm_target_orders", 4>>, <<"lp_mint_address", 5>>, <<"pool_coin_token_account", 6>>, <<"pool_pc_token_account", 7>>, <<"serum_market", 8>>, <<"user_coin_token_account", 9>>, <<"user_pc_token_account", 10>>, <<"user_lp_token_account", 11>>, <<"user_owner", 12>>, <<"serum_event_queue", 13>>}
      [] type = "RaydiumAmmV4Withdraw" -> {<<"token_program", 0>>, <<"amm_authority", 2>>, <<"amm_open_orders", 3>>, <<"amm_target_orders", 4>>, <<"lp_mint_address", 5>>, <<"pool_coin_token_account", 6>>, <<"pool_pc_token_account", 7>>, <<"pool_withdraw_queue", 8>>, <<"pool_temp_lp_token_account", 9>>, <<"serum_program", 10>>, <<"serum_market", 11>>, <<"serum_coin_vault_account", 12>>, <<"serum_pc_vault_account", 13>>, <<"serum_vault_signer", 14>>, <<"user_lp_token_account", 15>>, <<"user_coin_token_account", 16>>, <<"user_pc_token_account", 17>>, <<"user_owner", 18>>, <<"serum_event_queue", 19>>, <<"serum_bids", 20>>, <<"serum_asks", 21>>}
      [] type = "RaydiumAmmV4Initialize2" -> {<<"token_program", 0>>, <<"spl_associated_token_account", 1>>, <<"system_program", 2>>, <<"rent", 3>>, <<"amm_authority", 5>>, <<"amm_open_orders", 6>>, <<"lp_mint", 7>>, <<"coin_mint", 8>>, <<"pc_mint", 9>>, <<"pool_coin_token_account", 10>>, <<"pool_pc_token_account", 11>>, <<"pool_withdraw_queue", 12>>, <<"amm_target_orders", 13>>, <<"pool_temp_lp", 14>>, <<"serum_program", 15>>, <<"serum_market", 16>>, <<"user_wallet", 17>>, <<"user_token_coin", 18>>, <<"user_token_pc", 19>>, <<"user_lp_token_account", 20>>}
      [] type = "RaydiumAmmV4WithdrawPnl" -> {<<"token_program", 0>>, <<"amm_config", 2>>, <<"amm_authority", 3>>, <<"amm_open_orders", 4>>, <<"pool_coin_token_account", 5>>, <<"pool_pc_token_account", 6>>, <<"coin_pnl_token_account", 7>>, <<"pc_pnl_token_account", 8>>, <<"pnl_owner", 9>>, <<"amm_target_orders", 10>>, <<"serum_program", 11>>, <<"serum_market", 12>>, <<"serum_event_queue", 13>>, <<"serum_coin_vault_account", 14>>, <<"serum_pc_vault_account", 15>>, <<"serum_vault_signer", 16>>}
      [] type = "RaydiumClmmSwap" -> {<<"sender", 1>>}
      [] type = "RaydiumClmmIncreaseLiquidity" -> {<<"user", 2>>}
      [] type = "RaydiumClmmDecreaseLiquidity" -> {<<"user", 1>>}
      [] type = "RaydiumClmmCreatePool" -> {<<"creator", 1>>}
      [] type = "RaydiumClmmOpenPosition" -> {<<"user", 1>>, <<"position_nft_mint", 2>>}
      [] type = "RaydiumClmmClosePosition" -> {<<"user", 1>>, <<"position_nft_mint", 2>>}
      [] type = "OrcaWhirlpoolSwap" -> {}
      [] type = "OrcaWhirlpoolLiquidityIncreased" -> {}
      [] type = "OrcaWhirlpoolLiquidityDecreased" -> {}
      [] type = "OrcaWhirlpoolPoolInitialized" -> {<<"token_program_a", 8>>, <<"token_program_b", 9>>}
      [] type = "PumpSwapBuy" -> {<<"pool_id", 1>>, <<"user", 2>>}
      [] type = "PumpSwapSell" -> {<<"pool_id", 1>>, <<"user", 2>>}
      [] type = "PumpSwapCreatePool" -> {<<"pool_id", 2>>, <<"creator", 1>>}
      [] type = "MeteoraDammV2Swap" -> {}
      [] type = "MeteoraDammV2AddLiquidity" -> {}
      [] type = "MeteoraDammV2RemoveLiquidity" -> {}
      [] type = "MeteoraDammV2InitializePool" -> {}
      [] type = "MeteoraDammV2CreatePosition" -> {}
      [] type = "MeteoraDammV2ClosePosition" -> {}
      [] type = "MeteoraDammV2ClaimPositionFee" -> {}
      [] type = "MeteoraDammV2InitializeReward" -> {}
      [] type = "MeteoraDammV2FundReward" -> {}
      [] type = "MeteoraDammV2ClaimReward" -> {}

\* the <<field, slot>> pairs each variant decoder keeps as an Option
OptionalSlots(type) ==
    CASE type = "RaydiumAmmV4Swap" -> {<<"amm_target_orders", 4>>}
      [] type = "RaydiumAmmV4Deposit" -> {}
      [] type = "RaydiumAmmV4Withdraw" -> {}
      [] type = "RaydiumAmmV4Initialize2" -> {}
      [] type = "RaydiumAmmV4WithdrawPnl" -> {}
      [] type = "RaydiumClmmSwap" -> {}
      [] type = "RaydiumClmmIncreaseLiquidity" -> {}
      [] type = "RaydiumClmmDecreaseLiquidity" -> {}
      [] type = "RaydiumClmmCreatePool" -> {}
      [] type = "RaydiumClmmOpenPosition" -> {}
      [] type = "RaydiumClmmClosePosition" -> {}
      [] type = "OrcaWhirlpoolSwap" -> {}
      [] type = "OrcaWhirlpoolLiquidityIncreased" -> {}
      [] type = "OrcaWhirlpoolLiquidityDecreased" -> {}
      [] type = "OrcaWhirlpoolPoolInitialized" -> {}
      [] type = "PumpSwapBuy" -> {}
      [] type = "PumpSwapSell" -> {}
      [] type = "PumpSwapCreatePool" -> {}
      [] type = "MeteoraDammV2Swap" -> {}
      [] type = "MeteoraDammV2AddLiquidity" -> {}
      [] type = "MeteoraDammV2RemoveLiquidity" -> {}
      [] type = "MeteoraDammV2InitializePool" -> {}
      [] type = "MeteoraDammV2CreatePosition" -> {}
      [] type = "MeteoraDammV2ClosePosition" -> {}
      [] type = "MeteoraDammV2ClaimPositionFee" -> {}
      [] type = "MeteoraDammV2InitializeReward" -> {}
      [] type = "MeteoraDammV2FundReward" -> {}
      [] type = "MeteoraDammV2ClaimReward" -> {}

\* the event the call would give with every account slot present
WithAllAccounts ==
    parse_instruction_unified(call.instruction_data, AccountKeys(MaxAccounts),
                              call.ctx, call.program_id, call.outcome)

\* the key at slot i of the accounts list, the zero key when it has no slot i
KeyOrZero(accounts, i) == IF i < Len(accounts) THEN accounts[i + 1] ELSE ZeroKey

Body8(instruction_data) == SubSeq(instruction_data, 9, Len(instruction_data))

\* the fields the source documents as populated from the logs, with the zero
\* of each field's type
LogPopulatedZero(type) ==
    CASE type = "RaydiumClmmSwap" ->
            [amount_0 |-> U64(0), transfer_fee_0 |-> U64(0),
             amount_1 |-> U64(0), transfer_fee_1 |-> U64(0),
             liquidity |-> U128(0), tick |-> 0]
      [] type = "OrcaWhirlpoolSwap" ->
            [pre_sqrt_price |-> U128(0), post_sqrt_price |-> U128(0),
             output_amount |-> U64(0),
             input_transfer_fee |-> U64(0), output_transfer_fee |-> U64(0),
             lp_fee |-> U64(0), protocol_fee |-> U64(0)]
      [] type \in {"OrcaWhirlpoolLiquidityIncreased",
                   "OrcaWhirlpoolLiquidityDecreased"} ->
            [tick_lower_index |-> 0, tick_upper_index |-> 0,
             token_a_amount |-> U64(0), token_b_amount |-> U64(0),
             token_a_transfer_fee |-> U64(0), token_b_transfer_fee |-> U64(0)]
      [] type = "OrcaWhirlpoolPoolInitialized" ->
            [decimals_a |-> 0, decimals_b |-> 0]
      [] type = "PumpSwapBuy" -> [token_amount |-> U64(0), price |-> U64(0)]
      [] type = "PumpSwapSell" -> [sol_amount |-> U64(0), price |-> U64(0)]
      [] type = "MeteoraDammV2Swap" ->
            [start_bin_id |-> 0, end_bin_id |-> 0, amount_out |-> U64(0),
             swap_for_y |-> FALSE, fee |-> U64(0), protocol_fee |-> U64(0),
             fee_bps |-> U128(0), host_fee |-> U64(0)]
      [] type = "MeteoraDammV2AddLiquidity" -> [active_bin_id |-> 0]
      [] type = "MeteoraDammV2RemoveLiquidity" ->
            [amounts |-> <<U64(0), U64(0)>>, active_bin_id |-> 0]
      [] type = "MeteoraDammV2ClaimPositionFee" ->
            [fee_x |-> U64(0), fee_y |-> U64(0)]
      [] type = "MeteoraDammV2ClaimReward" -> [total_reward |-> U64(0)]
      [] OTHER -> <<>>

\* the log-populated fields the source fills with a provisional value taken
\* from the instruction ("the log will overwrite it"), with that value
ProvisionalValue(type, body) ==
    CASE type = "OrcaWhirlpoolSwap" ->
            [pre_sqrt_price |-> from_le_bytes(Slice(body, 16, 16)),
             output_amount |-> IF body[33] # 0
                               THEN from_le_bytes(Slice(body, 8, 8))
                               ELSE from_le_bytes(Slice(body, 0, 8))]
      [] type \in {"OrcaWhirlpoolLiquidityIncreased",
                   "OrcaWhirlpoolLiquidityDecreased"} ->
            [token_a_amount |-> from_le_bytes(Slice(body, 16, 8)),
             token_b_amount |-> from_le_bytes(Slice(body, 24, 8))]
      [] type = "MeteoraDammV2Swap" ->
            [amount_out |-> from_le_bytes(Slice(body, 8, 8))]
      [] OTHER -> <<>>

OrcaHandledVariants ==
    {"Swap", "SwapV2", "IncreaseLiquidity", "IncreaseLiquidityV2",
     "DecreaseLiquidity", "DecreaseLiquidityV2", "InitializePool",
     "InitializePoolV2"}

OrcaEventOf(variant) ==
    CASE variant \in {"Swap", "SwapV2"} -> "OrcaWhirlpoolSwap"
      [] variant \in {"IncreaseLiquidity", "IncreaseLiquidityV2"} ->
            "OrcaWhirlpoolLiquidityIncreased"
      [] variant \in {"DecreaseLiquidity", "DecreaseLiquidityV2"} ->
            "OrcaWhirlpoolLiquidityDecreased"
      [] variant \in {"InitializePool", "InitializePoolV2"} ->
            "OrcaWhirlpoolPoolInitialized"

\* C7: each of the eight handled Orca instructions, original and V2, has a
\* discriminator that from_discriminator maps to it, and a structurally valid
\* payload and accounts list carrying that discriminator gives its event.
C7_BothFormsDecoded ==
    /\ IsInstrCallOf(ORCA_WHIRLPOOL_PROGRAM_ID)
    /\ Len(call.instruction_data) = 8 + MaxBody
    /\ Len(call.accounts) = MaxAccounts
    => \A variant \in OrcaHandledVariants :
           \E d \in OrcaHeads :
               /\ orca_whirlpool_from_discriminator(d) = Some(variant)
               /\ (Slice(call.instruction_data, 0, 8) = d
                      => result.type = OrcaEventOf(variant))

\* C8: the Raydium AMM V4 decoder emits exactly when the first byte is one of
\* 1, 3, 4, 7, 9, 11, the payload after it has the variant's 25 / 24 / 8 / 0 /
\* 16 / 16 bytes and the AMM slot (4 for Initialize2, 1 otherwise) is present;
\* SwapBaseIn gives RaydiumAmmV4Swap with amount_in and minimum_amount_out
\* read at offsets 1 and 9, amm = accounts[1], user_source_owner =
\* accounts[17] or the zero key, and max_amount_in = amount_out = 0.
C8_RaydiumAmmEmits ==
    IsInstrCallOf(RAYDIUM_AMM_V4_PROGRAM_ID) /\ call.instruction_data # <<>> =>
        LET d == call.instruction_data
            first == d[1]
            after == Len(d) - 1
            n == Len(call.accounts)
            need == CASE first = 1 -> 25 [] first = 3 -> 24 [] first = 4 -> 8
                      [] first = 7 -> 0 [] first = 9 -> 16 [] first = 11 -> 16
                      [] OTHER -> 0
            slot == IF first = 1 THEN 4 ELSE 1
            emits == /\ first \in {1, 3, 4, 7, 9, 11}
                     /\ after >= need
                     /\ slot < n
        IN  /\ (result # NoEvent <=> emits)
            /\ (emits /\ first = 9 =>
                    /\ result.type = "RaydiumAmmV4Swap"
                    /\ result.amount_in = from_le_bytes(Slice(d, 1, 8))
                    /\ result.minimum_amount_out = from_le_bytes(Slice(d, 9, 8))
                    /\ result.amm = call.accounts[2]
                    /\ result.user_source_owner =
                           (IF 17 < n THEN call.accounts[18] ELSE ZeroKey)
                    /\ result.max_amount_in = U64(0)
                    /\ result.amount_out = U64(0))

\* a SwapBaseIn of 1_000_000 for at least 950_000 came out, its accounts list
\* too short for the user source owner
C8_Witness ==
    /\ IsInstrCallOf(RAYDIUM_AMM_V4_PROGRAM_ID)
    /\ call.instruction_data # <<>>
    /\ call.instruction_data[1] = 9
    /\ result # NoEvent
    /\ result.amount_in = U64(1000000)
    /\ result.minimum_amount_out = U64(950000)
    /\ Len(call.accounts) = 17
    /\ result.user_source_owner = ZeroKey

-----------------------------------------------------------------------------
(* Properties of the PumpSwap log decoder *)

IsLogCall == call.fn = "pump_amm_parse_log"

\* the record a log line carries, when it carries one
CarriedRecord == extract_program_data_zero_copy(call.log)

\* the variant whose discriminator starts the carried record
CarriedVariants ==
    {v \in LogVariants :
        /\ v.discriminator # UnknownDiscriminator
        /\ CarriedRecord.some
        /\ Len(CarriedRecord.v) >= 8
        /\ Slice(CarriedRecord.v, 0, 8) = v.discriminator}

\* C3: a record of one of the five variants that is cut short of a field the
\* variant decoder reads makes parse_log return absence, and no event is
\* emitted with a field that was not taken from bytes of the record.
C3_TruncatedRecordAbsent ==
    IsLogCall =>
        /\ \A v \in CarriedVariants :
               Len(CarriedRecord.v) - 8 < ReadsEnd(v.reads) => result = NoEvent
        /\ (result # NoEvent =>
                \A r \in unchecked : r.offset + r.width <= r.len)

\* C4: every unchecked read of a variant decoder lies below the length the
\* decoder checked, hence inside the record.
C4_CheckCoversReads ==
    \A r \in unchecked :
        /\ r.offset + r.width <= r.required_len
        /\ r.offset + r.width <= r.len

-----------------------------------------------------------------------------
(* Properties of the log decoders *)

CheckedLogDecoders ==
    {"orca_whirlpool_parse_log", "raydium_amm_parse_log",
     "meteora_dlmm_parse_log", "meteora_amm_parse_log",
     "raydium_launchpad_parse_log"}

IsCheckedLogCall == call.fn \in CheckedLogDecoders

IsAnyLogCall == IsLogCall \/ IsCheckedLogCall

\* the line holds `Program data: ` and the trimmed tail after it is base64
HasProgramData(log) ==
    LET pos == find(log, PROGRAM_DATA_MARKER)
    IN  /\ pos.some
        /\ base64_decode(trim(SubSeq(log, pos.v + 14 + 1, Len(log)))).some

HasKeyword(log) ==
    \E word \in {<<"s", "w", "a", "p">>, <<"p", "o", "o", "l">>,
                  <<"d", "e", "p", "o", "s", "i", "t">>,
                  <<"m", "i", "g", "r", "a", "t", "e">>} : find(log, word).some

\* C14: parse_log of each of the six protocols returns absence for a line
\* that does not hold `Program data: ` or whose tail after it is not valid
\* base64, whatever keywords the line holds
C14_NoRecordNoEvent ==
    IsAnyLogCall /\ ~HasProgramData(call.log) => result = NoEvent

\* a Raydium AMM line of keywords behind a record, which is no base64 then
C14_Witness ==
    /\ call.fn = "raydium_amm_parse_log"
    /\ call.fact.shape = "keywords after the record"
    /\ find(call.log, PROGRAM_DATA_MARKER).some
    /\ ~HasProgramData(call.log)
    /\ HasKeyword(call.log)
    /\ result = NoEvent

\* the discriminators the instruction decoder of program p knows, and how
\* many bytes a discriminator of p has
KnownInstrDiscriminators(p) ==
    CASE p = RAYDIUM_AMM_V4_PROGRAM_ID ->
            {<<1>>, <<3>>, <<4>>, <<7>>, <<9>>, <<11>>}
      [] p = RAYDIUM_CLMM_PROGRAM_ID -> RaydiumClmmHeads
      [] p = ORCA_WHIRLPOOL_PROGRAM_ID ->
            {h \in OrcaHeads \cup {UnknownDiscriminator} :
                orca_whirlpool_from_discriminator(h).some}
      [] p = PUMPSWAP_PROGRAM_ID -> PumpAmmHeads
      [] p = METEORA_DAMM_V2_PROGRAM_ID -> MeteoraDammHeads

InstrDiscriminatorLen(p) == IF p = RAYDIUM_AMM_V4_PROGRAM_ID THEN 1 ELSE 8

\* the call in c hands a decoder an input whose discriminator is complete
\* and is none of the decoder's table
UnknownDiscriminatorCall(c) ==
    \/ /\ c.fn = "parse_instruction_unified"
       /\ c.program_id \in ByteDecodedPrograms
       /\ Len(c.instruction_data) >= InstrDiscriminatorLen(c.program_id)
       /\ SubSeq(c.instruction_data, 1, InstrDiscriminatorLen(c.program_id))
            \notin KnownInstrDiscriminators(c.program_id)
    \/ /\ c.fn = "pump_amm_parse_log"
       /\ LET record == extract_program_data_zero_copy(c.log)
          IN  /\ record.some
              /\ Len(record.v) >= 8
              /\ SubSeq(record.v, 1, 8) = UnknownDiscriminator
    \/ /\ c.fn \in CheckedLogDecoders
       /\ c.fact.shape = "plain"
       /\ c.fact.head = UnknownDiscriminator

\* C15 as stated: an input whose discriminator is not in the decoder's table
\* gives absence, and the call changes nothing a caller or a later call can
\* observe: not the clock, not the counters
C15_UnknownDiscriminatorNoEffect ==
    [][UnknownDiscriminatorCall(call') =>
            /\ result' = NoEvent
            /\ UNCHANGED <<clock, stamped, perf_stats>>]_vars

\* C15, amended: an input whose discriminator is not in the decoder's table
\* gives absence and the call changes nothing observable, except that in the
\* build with the perf-stats feature PumpSwap's parse_log adds one to
\* PARSE_COUNT and the elapsed time to PARSE_TIME_NS
C15_UnknownDiscriminatorAbsent ==
    [][UnknownDiscriminatorCall(call') =>
            /\ result' = NoEvent
            /\ UNCHANGED <<clock, stamped>>
            /\ IF perf_stats.enabled /\ call'.fn = "pump_amm_parse_log"
               THEN /\ perf_stats'.PARSE_COUNT = perf_stats.PARSE_COUNT + 1
                    /\ perf_stats'.PARSE_TIME_NS - perf_stats.PARSE_TIME_NS
                            \in ElapsedNs
               ELSE UNCHANGED perf_stats]_vars

\* a PumpSwap line with an unknown discriminator gave absence and was counted
C15_Witness ==
    /\ UnknownDiscriminatorCall(call)
    /\ call.fn = "pump_amm_parse_log"
    /\ result = NoEvent
    /\ perf_stats.enabled
    /\ perf_stats.PARSE_COUNT = 1

\* the call handed a bounds-checked decoder a plain line with a record of the
\* logged variant under its own discriminator
IsOwnRecordCall ==
    /\ IsCheckedLogCall
    /\ call.fact.shape = "plain"
    /\ call.fact.head = call.fact.variant.discriminator

\* C16: for every variant of the five bounds-checked log decoders, the record
\* of the discriminator and exactly the packed fields decodes to the variant's
\* event, and the record with one or more trailing bytes removed gives absence
C16_TruncatedLogAbsent ==
    IsOwnRecordCall =>
        /\ call.fact.cut = 0 => result.type = call.fact.variant.type
        /\ call.fact.cut >= 1 => result = NoEvent

C16_Witness ==
    /\ IsOwnRecordCall
    /\ call.fn = "meteora_dlmm_parse_log"
    /\ call.fact.variant.type = "MeteoraDlmmSwap"
    /\ call.fact.cut = 1
    /\ Len(LogRecord(call.fact)) = 8 + 129 - 1
    /\ result = NoEvent

\* the fields of a PumpSwap Buy record after the discriminator, in the order
\* parse_buy_event_optimized names them
PumpSwapBuyFields ==
    <<<<"timestamp", "i64">>,
      <<"base_amount_out", "u64">>,
      <<"max_quote_amount_in", "u64">>,
      <<"user_base_token_reserves", "u64">>,
      <<"user_quote_token_reserves", "u64">>,
      <<"pool_base_token_reserves", "u64">>,
      <<"pool_quote_token_reserves", "u64">>,
      <<"quote_amount_in", "u64">>,
      <<"lp_fee_basis_points", "u64">>,
      <<"lp_fee", "u64">>,
      <<"protocol_fee_basis_points", "u64">>,
      <<"protocol_fee", "u64">>,
      <<"quote_amount_in_with_lp_fee", "u64">>,
      <<"user_quote_amount_in", "u64">>,
      <<"pool", "pubkey">>,
      <<"user", "pubkey">>,
      <<"user_base_token_account", "pubkey">>,
      <<"user_quote_token_account", "pubkey">>,
      <<"protocol_fee_recipient", "pubkey">>,
      <<"protocol_fee_recipient_token_account", "pubkey">>,
      <<"coin_creator", "pubkey">>,
      <<"coin_creator_fee_basis_points", "u64">>,
      <<"coin_creator_fee", "u64">>,
      <<"track_volume", "bool">>,
      <<"total_unclaimed_tokens", "u64">>,
      <<"total_claimed_tokens", "u64">>,
      <<"current_sol_volume", "u64">>,
      <<"last_update_timestamp", "i64">>>>

\* the bytes a field of the kind takes in a packed record
KindWidth(kind) ==
    CASE kind = "pubkey" -> 32
      [] kind \in {"bool", "u8"} -> 1
      [] kind = "u16" -> 2
      [] kind \in {"u32", "i32"} -> 4
      [] kind \in {"u64", "i64"} -> 8
      [] kind = "u128" -> 16

\* where field i starts when the fields before it are packed without gaps
RECURSIVE FieldOffset(_, _)
FieldOffset(fields, i) ==
    IF i = 1 THEN 0
    ELSE FieldOffset(fields, i - 1) + KindWidth(fields[i - 1][2])

\* the bytes of 16-bit limbs, little-endian
LimbBytes(limbs) ==
    [i \in 1..(2 * Len(limbs)) |->
        IF i % 2 = 1 THEN limbs[(i + 1) \div 2] % 256
        ELSE limbs[i \div 2] \div 256]

\* the little-endian bytes of a PumpSwap field value, and the value the bytes
\* stand for
EncodedAs(kind, value) ==
    CASE kind = "pubkey" -> value
      [] kind = "bool" -> <<IF value THEN 1 ELSE 0>>
      [] OTHER -> LimbBytes(value)

ValueOfBytes(kind, bytes) ==
    CASE kind = "pubkey" -> bytes
      [] kind = "bool" -> bytes[1] = 1
      [] OTHER -> from_le_bytes(bytes)

RECURSIVE EncodedFields(_, _, _)
EncodedFields(fields, values, i) ==
    IF i > Len(fields) THEN <<>>
    ELSE EncodedAs(fields[i][2], values[fields[i][1]])
            \o EncodedFields(fields, values, i + 1)

\* the field values a packed PumpSwap record body stands for
ValuesOfBody(fields, body) ==
    [name \in {fields[i][1] : i \in DOMAIN fields} |->
        LET i == CHOOSE j \in DOMAIN fields : fields[j][1] = name
        IN  ValueOfBytes(fields[i][2],
                         Slice(body, FieldOffset(fields, i),
                               KindWidth(fields[i][2])))]

\* the call handed PumpSwap's parse_log the plain line of a Buy record that
\* is the packing of field values
IsPumpSwapBuyRoundTrip ==
    /\ IsLogCall
    /\ call.log = PROGRAM_DATA_MARKER \o base64_encode(call.record)
    /\ Len(call.record) = 8 + 385
    /\ SubSeq(call.record, 1, 8) = <<103, 244, 82, 31, 44, 245, 119, 119>>
    /\ LET body == SubSeq(call.record, 9, Len(call.record))
       IN  EncodedFields(PumpSwapBuyFields,
                         ValuesOfBody(PumpSwapBuyFields, body), 1) = body

\* the event field a bounds-checked decoder stores the record field under
StoredAs(type, name) ==
    CASE name = "user" /\ type = "RaydiumAmmV4Swap" -> "user_source_owner"
      [] name = "user" /\ type \in {"RaydiumAmmV4Deposit",
                                     "RaydiumAmmV4Withdraw"} -> "user_owner"
      [] name = "user" /\ type = "RaydiumAmmV4Initialize2" -> "user_wallet"
      [] OTHER -> name

\* the record fields BonkPoolCreate reads and does not store
DiscardedFields ==
    {"_token_a_mint", "_token_b_mint", "_initial_liquidity_a",
     "_initial_liquidity_b"}

\* the event holds the value the record field was packed from
FieldRoundTrips(event, type, values, name) ==
    CASE name \in DiscardedFields -> TRUE
      [] name \in {"amount_0", "amount_1"} /\ "amounts" \in DOMAIN event ->
            event.amounts[IF name = "amount_0" THEN 1 ELSE 2] = values[name]
      [] OTHER ->
            /\ StoredAs(type, name) \in DOMAIN event
            /\ event[StoredAs(type, name)] = values[name]

C17_WitnessPumpSwapBuy ==
    /\ IsPumpSwapBuyRoundTrip
    /\ result.type = "PumpSwapBuy"
    /\ result.track_volume
    /\ result.last_update_timestamp
            = from_le_bytes(Slice(call.record, 8 + 377, 8))

\* C18: every event an instruction or log decoder emits carries the
\* signature, slot and tx_index handed over with the source fact, and the
\* block time handed over, or 0 when the caller had none
C18_MetadataFromFact ==
    (IsInstrCall \/ IsAnyLogCall) /\ "metadata" \in DOMAIN result =>
        /\ result.metadata.signature = call.ctx.signature
        /\ result.metadata.slot = call.ctx.slot
        /\ result.metadata.tx_index = call.ctx.tx_index
        /\ result.metadata.block_time_us =
                (IF call.ctx.block_time_us.some THEN call.ctx.block_time_us.v
                 ELSE 0)

\* an instruction event of a fact without block time: block_time_us is 0 and
\* the slot and index are the fact's
C18_Witness ==
    /\ IsInstrCall
    /\ "metadata" \in DOMAIN result
    /\ ~call.ctx.block_time_us.some
    /\ call.ctx.tx_index = 3
    /\ result.metadata.block_time_us = 0
    /\ result.metadata.tx_index = 3
    /\ result.metadata.slot = 7

\* a PumpSwap Buy event of a log fact with block time 5
C18_WitnessLog ==
    /\ IsLogCall
    /\ result.type = "PumpSwapBuy"
    /\ call.ctx.block_time_us = Some(5)
    /\ result.metadata.block_time_us = 5
    /\ result.metadata.signature = "sigB"

\* C19: on one thread, the grpc_recv_us that create_metadata_simple stamps on
\* an event is never below the one it stamped on an earlier event
C19_RecvUsMonotone ==
    IsInstrCall /\ "metadata" \in DOMAIN result /\ stamped.some =>
        result.metadata.grpc_recv_us >= stamped.v

\* an event without its receive time
WithoutRecvUs(event) ==
    IF "metadata" \in DOMAIN event
    THEN [event EXCEPT !.metadata.grpc_recv_us = 0]
    ELSE event

C21_WarmupOnce ==
    /\ [](body_runs <= 1)
    /\ [](body_runs = 0 => ~WARMED_UP)
    /\ [](returned # {} => WARMED_UP)
    /\ [][WARMED_UP => WARMED_UP']_vars
    /\ [][WARMED_UP /\ (\E t \in Threads : WarmupParser(t))
            => UNCHANGED <<WARMED_UP, warmup_pc, warmed, body_runs>>]_vars

\* the body has run once, a later call of another thread has returned
\* without running it, and is_warmed_up() gave false before and true after
C21_Witness ==
    /\ body_runs = 1
    /\ returned = Threads
    /\ warmed = AllWarmupSteps
    /\ observed[1] = Some(TRUE)
    /\ observed[2] = Some(FALSE)

\* C22: when a call of warmup_parser has returned to a thread, and when
\* is_warmed_up() has returned true to a thread, the three initialization
\* steps are complete, under every interleaving
C22_WarmedWhenReturned ==
    (returned # {} \/ \E t \in Threads : observed[t] = Some(TRUE))
        => warmed = AllWarmupSteps

IsFastFilterCall == call.fn \in {"get_event_type_fast", "is_event_type"}

\* the payload of the line: what follows `Program data: `, trimmed
PayloadOf(log) ==
    LET pos == find(log, PROGRAM_DATA_MARKER)
    IN  IF ~pos.some THEN None
        ELSE Some(trim(SubSeq(log, pos.v + 14 + 1, Len(log))))

\* C23: for every log line, lines with a payload shorter than 16 characters
\* included, get_event_type_fast returns Some or None and is_event_type
\* returns true or false: neither panics
C23_FastFilterNeverPanics ==
    IsFastFilterCall => result # Panic

\* C24: a bool decoded from the wire is true exactly when its byte is not 0:
\* by read_bool, by read_bool_unchecked for track_volume of a PumpSwap Buy
\* record, and for is_base_input of a Raydium CLMM Swap instruction, so that
\* the unchecked reader agrees with the checked one on all 256 bytes
C24_BoolIsNonzero ==
    call.fn = "read_bool" => result = Some(call.byte # 0)

\* whether the bytes offset .. offset + width lie in a buffer of len bytes,
\* offset and width being the numbers they stand for
InBuffer(offset, width, len) ==
    offset >= 0 /\ width >= 0 /\ offset + width <= len

\* C25: every checked reader of instr::utils and accounts::utils returns
\* failure exactly when offset + width > len(buffer) and otherwise the
\* little-endian value of buffer[offset .. offset + width], and the copies of
\* read_u8, read_u16_le, read_u64_le and read_pubkey in the two modules agree
\* on every buffer and offset
C25_CheckedReaders ==
    call.fn = "read" =>
        LET width == ReaderWidth(call.kind, call.length)
        IN  /\ result =
                    (IF InBuffer(call.offset, width, Len(call.data))
                     THEN Some(ReaderValue(call.kind,
                                    Slice(call.data, call.offset, width)))
                     ELSE None)
            /\ call.kind \in AccountsReaderKinds =>
                    instr_utils_read(call.kind, call.data, call.offset,
                                     call.length, call.overflow_checks)
                    = accounts_utils_read(call.kind, call.data, call.offset,
                                          call.length, call.overflow_checks)

\* the same, for the offsets and lengths whose sum does not pass usize::MAX
C25_CheckedReadersInRange ==
    call.fn = "read" /\ call.offset >= 0 /\ call.length >= 0 =>
        result =
            (IF InBuffer(call.offset, ReaderWidth(call.kind, call.length),
                         Len(call.data))
             THEN Some(ReaderValue(call.kind,
                            Slice(call.data, call.offset,
                                  ReaderWidth(call.kind, call.length))))
             ELSE None)

\* the discriminator constant of the variant of a PumpSwap log event
DiscriminatorOfEvent(type) ==
    CASE type = "PumpSwapBuy" -> PUMP_LOG_BUY
      [] type = "PumpSwapSell" -> PUMP_LOG_SELL
      [] type = "PumpSwapCreatePool" -> PUMP_LOG_CREATE_POOL
      [] type = "PumpSwapLiquidityAdded" -> PUMP_LOG_ADD_LIQUIDITY
      [] type = "PumpSwapLiquidityRemoved" -> PUMP_LOG_REMOVE_LIQUIDITY

\* the event parse_log emits for the line of the call (it does not depend on
\* the context for its type)
FullParse(log) == pump_amm_parse_log(log, Ctx("sigA", 7, 3, None), 9, 0)

\* whenever parse_log emits an event for the line, get_event_type_fast
\* returns Some of the discriminator constant of the event's variant and
\* is_event_type of the line and that constant is true
FastAgreesWithFull ==
    IsFastFilterCall /\ FullParse(call.log) # NoEvent =>
        /\ call.fn = "get_event_type_fast" =>
                result = Some(DiscriminatorOfEvent(FullParse(call.log).type))
        /\ call.fn = "is_event_type" =>
                result = Bool(call.discriminator
                              = DiscriminatorOfEvent(FullParse(call.log).type))

\* the line has `Program data: ` followed by a payload of at least 16
\* characters
HasLongPayload(log) == PayloadOf(log).some /\ Len(PayloadOf(log).v) >= 16

\* the little-endian u64 of the first 8 bytes the text decodes to
DiscriminatorIn(text) == from_le_bytes(Slice(base64_decode(text).v, 0, 8))

C26_WitnessIsEventType ==
    /\ call.fn = "is_event_type"
    /\ FullParse(call.log) # NoEvent
    /\ FullParse(call.log).type = "PumpSwapSell"
    /\ call.discriminator = PUMP_LOG_SELL
    /\ result = Bool(TRUE)

C26_WitnessShortest ==
    /\ call.fn = "get_event_type_fast"
    /\ PayloadOf(call.log).some
    /\ Len(PayloadOf(call.log).v) = 16
    /\ PayloadOf(call.log).v = base64_encode(call.record)
    /\ result = Some(PUMP_LOG_SELL)

\* the variants of logs::meteora_amm that build their metadata with
\* create_metadata_default
MeteoraPoolsDefaultMetadata ==
    {"MeteoraPoolsSwap", "MeteoraPoolsAddLiquidity",
     "MeteoraPoolsRemoveLiquidity"}

\* C27: every event emitted by a log decoder carries metadata.grpc_recv_us
\* equal to the grpc_recv_us the caller supplied with the log fact, for every
\* variant of every protocol, the Meteora Pools Swap, AddLiquidity and
\* RemoveLiquidity variants included
C27_RecvUsFromCaller ==
    IsAnyLogCall /\ result # NoEvent =>
        result.metadata.grpc_recv_us = call.grpc_recv_us

\* the same for every variant but the three of Meteora Pools
C27_RecvUsFromCallerElsewhere ==
    IsAnyLogCall /\ result # NoEvent
        /\ result.type \notin MeteoraPoolsDefaultMetadata =>
        result.metadata.grpc_recv_us = call.grpc_recv_us

\* a well-formed SPL Mint: 82 bytes, a mint authority that is absent or
\* present (COption tag 0 or 1), initialized
IsWellFormedMint(data) ==
    /\ Len(data) = 82
    /\ IsSplData(data)
    /\ Slice(data, 0, 4) \in {<<0, 0, 0, 0>>, <<1, 0, 0, 0>>}

\* a well-formed SPL token Account: 165 bytes, any mint key in its first 32
\* bytes, initialized
IsWellFormedTokenAccount(data) == Len(data) = 165 /\ IsSplData(data)

\* the unified entry point has classified the SPL account of the call as a
\* token object
ClassifiedAsToken ==
    /\ IsWellFormedMint(call.account.data) =>
            /\ result.type = "TokenInfo"
            /\ result.supply = from_le_bytes(Slice(call.account.data, 36, 8))
            /\ result.supply = U64(1000000)
            /\ result.decimals = call.account.data[45]
            /\ result.decimals = 6
    /\ IsWellFormedTokenAccount(call.account.data) =>
            /\ result.type = "TokenAccount"
            /\ result.amount = Some(from_le_bytes(Slice(call.account.data, 64, 8)))
            /\ result.amount = Some(U64(500))

\* C28: through parse_account_unified every well-formed SPL account not
\* owned by PumpSwap is classified as a token object, an 82-byte mint as
\* TokenInfo with the supply at 36 and the decimals at 44 and a 165-byte
\* token account as TokenAccount with the amount at 64, whatever its first 8
\* bytes are: the nonce-magic check never captures such an account
C28_SplAlwaysToken ==
    IsUnifiedCall /\ call.account.owner # PUMPSWAP_PROGRAM_ID => ClassifiedAsToken

\* the same for the accounts whose first 8 bytes are not the nonce magic
C28_SplTokenWithoutNonceMagic ==
    IsUnifiedCall /\ call.account.owner # PUMPSWAP_PROGRAM_ID
        /\ ~is_nonce_account(call.account.data) => ClassifiedAsToken

\* the filters a second run of the same call may be given
OtherFilters ==
    {None} \cup {Some(t) : t \in {"TokenAccount", "TokenInfo", "NonceAccount",
                                  "PumpSwapPoolAccount", "PumpSwapBuy"}}

\* C29: the event-type filter has no influence on account decoding: the
\* result of parse_account_unified for an account and metadata is the result
\* of the run with no filter and of the run with every other filter, and it
\* is absence for empty data whoever owns the account
C29_FilterHasNoInfluence ==
    IsUnifiedCall =>
        /\ \A filter \in OtherFilters :
                parse_account_unified(call.account, call.metadata, filter,
                                      call.layout_ok) = result
        /\ Len(call.account.data) = 0 => result = NoEvent

\* a mint was decoded to TokenInfo under a filter that names TokenAccount
C29_Witness ==
    /\ IsUnifiedCall
    /\ call.filter = Some("TokenAccount")
    /\ call.account.data = SplData(82)
    /\ result.type = "TokenInfo"

\* empty data of a PumpSwap-owned account gave absence
C29_WitnessEmpty ==
    /\ IsUnifiedCall
    /\ call.filter = None
    /\ call.account.owner = PUMPSWAP_PROGRAM_ID
    /\ call.account.data = <<>>
    /\ result = NoEvent

IsBpsCall ==
    call.fn \in {"calculate_slippage_bps", "calculate_price_impact_bps"}

\* min(10000, floor((base - taken) * 10000 / base)), the subtraction
\* saturating at 0 and the product in full; 0 for base = 0
ExpectedBps(base, taken) ==
    IF base = <<0, 0, 0, 0>> THEN 0
    ELSE quotient_min(wide_mul(u64_saturating_sub(base, taken), 10000),
                      base, 0, 10000)

\* C30: calculate_slippage_bps(amount_in, amount_out_min) returns, for all
\* u64 inputs, min(10000, floor((amount_in - amount_out_min) * 10000 /
\* amount_in)) with the subtraction saturating at 0, and 0 when amount_in is
\* 0; the product by 10000 never overflows 64 bits or aborts and the result
\* is in 0..=10000; the same for calculate_price_impact_bps with
\* (expected_out, amount_out)
C30_BpsForAllInputs ==
    IsBpsCall =>
        /\ result # Panic
        /\ result = Bps(ExpectedBps(call.base, call.taken))
        /\ result.bps \in 0..10000

\* the same for the inputs whose product by 10000 fits 64 bits
C30_BpsWhereProductFits ==
    IsBpsCall /\ wide_mul(u64_saturating_sub(call.base, call.taken), 10000)[5] = 0 =>
        /\ result = Bps(ExpectedBps(call.base, call.taken))
        /\ result.bps \in 0..10000

\* whatever the inputs, a value returned is in 0..=10000
C30_BpsInRange ==
    IsBpsCall /\ result # Panic => result.bps \in 0..10000

=============================================================================
